---- MODULE Spec2Model ----
(***************************************************************************)
(* Voice-effects pipeline of the text-to-speech backend:                   *)
(*   app/api/voice_effects.py       the /apply and /preview handlers       *)
(*   app/services/voice_effects.py  VoiceEffectsProcessor                  *)
(* and, in the last three sections, its speech models and reference store: *)
(*   app/services/model_manager.py  RealTTSModel, ModelManager             *)
(*   app/api/voice_clone.py         the reference-audio handlers           *)
(*                                                                         *)
(* Real numbers are fixed point: a parameter or a sample x is the integer  *)
(* x * FP (FP = 1000), and every product or quotient is rounded to the     *)
(* nearest unit, as a floating-point operation rounds its result.          *)
(***************************************************************************)
EXTENDS Integers, Sequences, FiniteSets, TLC

VARIABLES
    pc,               \* position of the request handler
    req,              \* the request being served (form fields and upload)
    files,            \* temporary files that exist on disk
    audio_data,       \* waveform returned by _load_audio
    sample_rate,      \* its sample rate
    processed_audio,  \* waveform threaded through the stages
    log,              \* events of this request, in the order they happened
    raised,           \* stages whose primitive raised (and was caught)
    response,         \* the HTTP response, NoResponse until there is one
    arrays,           \* the ndarray objects alive, where the model follows them
    model_manager,    \* the ModelManager instance: models, model_status, loading_locks
    speaker_embeddings,  \* api/voice_clone.py: audio id -> embedding
    uploaded_audios,  \* api/voice_clone.py: audio id -> upload info
    completed,        \* RealTTSModel.tts_to_file: the Event the speech thread sets
    error_occurred    \* RealTTSModel.tts_to_file: the Event it sets when it fails

\* the model manager, the voice-clone stores and the speech thread's events
tts_state == <<model_manager, speaker_embeddings, uploaded_audios, completed, error_occurred>>

vars == <<pc, req, files, audio_data, sample_rate, processed_audio, log, raised, response,
         arrays, tts_state>>

\* ModelManager.__init__: three empty dicts
NewModelManager == [models |-> <<>>, model_status |-> <<>>, loading_locks |-> {}]

\* nothing loaded, no reference uploaded, no speech call made
TtsIdle ==
    /\ model_manager = NewModelManager
    /\ speaker_embeddings = <<>>
    /\ uploaded_audios = <<>>
    /\ completed = <<>>
    /\ error_occurred = <<>>

----------------------------------------------------------------------------
(* Fixed-point arithmetic *)

FP == 10 * 100

Abs(x) == IF x < 0 THEN -x ELSE x

Sign(x) == IF x > 0 THEN 1 ELSE IF x < 0 THEN -1 ELSE 0

\* n / d rounded to the nearest integer (d > 0), ties away from zero
RoundDiv(n, d) == IF n >= 0 THEN (2 * n + d) \div (2 * d)
                  ELSE -((2 * (-n) + d) \div (2 * d))

\* Python's round(n / d) for n >= 0, d > 0: ties to the even integer
RoundHalfEven(n, d) ==
    LET q == n \div d
        r == n % d
    IN  IF 2 * r < d THEN q
        ELSE IF 2 * r > d THEN q + 1
        ELSE IF q % 2 = 0 THEN q ELSE q + 1

\* Python's int(n / d) for d > 0: truncation toward zero
TruncDiv(n, d) == IF n >= 0 THEN n \div d ELSE -((-n) \div d)

MulFP(a, b) == RoundDiv(a * b, FP)

DivFP(a, b) == IF b > 0 THEN RoundDiv(a * FP, b) ELSE -RoundDiv(a * FP, -b)

RECURSIVE PowFP(_, _)
PowFP(b, k) == IF k = 0 THEN FP ELSE MulFP(PowFP(b, k - 1), b)

RECURSIVE Pow2(_)
Pow2(k) == IF k = 0 THEN 1 ELSE 2 * Pow2(k - 1)

MaxOf(S) == CHOOSE x \in S : \A y \in S : y <= x

Range(s) == {s[i] : i \in 1..Len(s)}

----------------------------------------------------------------------------
(* Parameter validation: app/api/voice_effects.py *)

PitchMin == -12000
PitchMax == 12000
SpeedMin == 250
SpeedMax == 4000
IntensityMin == 0
IntensityMax == 1000
EchoDelayMin == 100
EchoDelayMax == 2000
EchoDecayMin == 100
EchoDecayMax == 900
RoomSizeMin == 100
RoomSizeMax == 1000
DampingMin == 100
DampingMax == 1000
DurationLimitMin == 5000
DurationLimitMax == 60000

OutputFormats == {"wav", "mp3", "ogg", "flac"}

\* Faulty variant: speed checked before pitch (C5 tells it from ValidateNumeric)
ValidateNumericSwapped(r) ==
    IF ~(SpeedMin <= r.speed_change /\ r.speed_change <= SpeedMax)
      THEN "Speed change must be between 0.25 and 4.0"
    ELSE IF ~(PitchMin <= r.pitch_shift /\ r.pitch_shift <= PitchMax)
      THEN "Pitch shift must be between -12 and +12 semitones"
    ELSE IF ~(IntensityMin <= r.robot_intensity /\ r.robot_intensity <= IntensityMax)
      THEN "Robot intensity must be between 0.0 and 1.0"
    ELSE IF ~(EchoDelayMin <= r.echo_delay /\ r.echo_delay <= EchoDelayMax)
      THEN "Echo delay must be between 0.1 and 2.0 seconds"
    ELSE IF ~(EchoDecayMin <= r.echo_decay /\ r.echo_decay <= EchoDecayMax)
      THEN "Echo decay must be between 0.1 and 0.9"
    ELSE IF ~(RoomSizeMin <= r.reverb_room_size /\ r.reverb_room_size <= RoomSizeMax)
      THEN "Reverb room size must be between 0.1 and 1.0"
    ELSE IF ~(DampingMin <= r.reverb_damping /\ r.reverb_damping <= DampingMax)
      THEN "Reverb damping must be between 0.1 and 1.0"
    ELSE "ok"

\* Faulty variant: the pitch range taken as open (C6 tells it from ValidateNumeric)
ValidateNumericStrict(r) ==
    IF ~(PitchMin < r.pitch_shift /\ r.pitch_shift < PitchMax)
      THEN "Pitch shift must be between -12 and +12 semitones"
    ELSE IF ~(SpeedMin <= r.speed_change /\ r.speed_change <= SpeedMax)
      THEN "Speed change must be between 0.25 and 4.0"
    ELSE IF ~(IntensityMin <= r.robot_intensity /\ r.robot_intensity <= IntensityMax)
      THEN "Robot intensity must be between 0.0 and 1.0"
    ELSE IF ~(EchoDelayMin <= r.echo_delay /\ r.echo_delay <= EchoDelayMax)
      THEN "Echo delay must be between 0.1 and 2.0 seconds"
    ELSE IF ~(EchoDecayMin <= r.echo_decay /\ r.echo_decay <= EchoDecayMax)
      THEN "Echo decay must be between 0.1 and 0.9"
    ELSE IF ~(RoomSizeMin <= r.reverb_room_size /\ r.reverb_room_size <= RoomSizeMax)
      THEN "Reverb room size must be between 0.1 and 1.0"
    ELSE IF ~(DampingMin <= r.reverb_damping /\ r.reverb_damping <= DampingMax)
      THEN "Reverb damping must be between 0.1 and 1.0"
    ELSE "ok"

\* Faulty variant: the damping check left out (C4 tells it from ValidateNumeric)
ValidateNumericNoDamping(r) ==
    IF ~(PitchMin <= r.pitch_shift /\ r.pitch_shift <= PitchMax)
      THEN "Pitch shift must be between -12 and +12 semitones"
    ELSE IF ~(SpeedMin <= r.speed_change /\ r.speed_change <= SpeedMax)
      THEN "Speed change must be between 0.25 and 4.0"
    ELSE IF ~(IntensityMin <= r.robot_intensity /\ r.robot_intensity <= IntensityMax)
      THEN "Robot intensity must be between 0.0 and 1.0"
    ELSE IF ~(EchoDelayMin <= r.echo_delay /\ r.echo_delay <= EchoDelayMax)
      THEN "Echo delay must be between 0.1 and 2.0 seconds"
    ELSE IF ~(EchoDecayMin <= r.echo_decay /\ r.echo_decay <= EchoDecayMax)
      THEN "Echo decay must be between 0.1 and 0.9"
    ELSE IF ~(RoomSizeMin <= r.reverb_room_size /\ r.reverb_room_size <= RoomSizeMax)
      THEN "Reverb room size must be between 0.1 and 1.0"
    ELSE "ok"

\* The seven range checks shared by both handlers, in the order of the if
\* statements; the result is the detail of the first HTTPException raised.
ValidateNumeric(r) ==
    IF ~(PitchMin <= r.pitch_shift /\ r.pitch_shift <= PitchMax)
      THEN "Pitch shift must be between -12 and +12 semitones"
    ELSE IF ~(SpeedMin <= r.speed_change /\ r.speed_change <= SpeedMax)
      THEN "Speed change must be between 0.25 and 4.0"
    ELSE IF ~(IntensityMin <= r.robot_intensity /\ r.robot_intensity <= IntensityMax)
      THEN "Robot intensity must be between 0.0 and 1.0"
    ELSE IF ~(EchoDelayMin <= r.echo_delay /\ r.echo_delay <= EchoDelayMax)
      THEN "Echo delay must be between 0.1 and 2.0 seconds"
    ELSE IF ~(EchoDecayMin <= r.echo_decay /\ r.echo_decay <= EchoDecayMax)
      THEN "Echo decay must be between 0.1 and 0.9"
    ELSE IF ~(RoomSizeMin <= r.reverb_room_size /\ r.reverb_room_size <= RoomSizeMax)
      THEN "Reverb room size must be between 0.1 and 1.0"
    ELSE IF ~(DampingMin <= r.reverb_damping /\ r.reverb_damping <= DampingMax)
      THEN "Reverb damping must be between 0.1 and 1.0"
    ELSE "ok"

\* /apply: the file name, the seven ranges, the output format
ValidateApply(r) ==
    IF r.filename = "" THEN "No audio file provided"
    ELSE IF ValidateNumeric(r) # "ok" THEN ValidateNumeric(r)
    ELSE IF r.output_format \notin OutputFormats
      THEN "Output format must be wav, mp3, ogg, or flac"
    ELSE "ok"

\* /preview: the seven ranges, the duration limit
ValidatePreview(r) ==
    IF ValidateNumeric(r) # "ok" THEN ValidateNumeric(r)
    ELSE IF ~(DurationLimitMin <= r.duration_limit /\ r.duration_limit <= DurationLimitMax)
      THEN "Duration limit must be between 5 and 60 seconds"
    ELSE "ok"

Validate(r) == IF r.endpoint = "apply" THEN ValidateApply(r) ELSE ValidatePreview(r)

NoBody == <<>>

NoResponse == [status |-> 0, detail |-> "", effects_applied |-> {}, body |-> NoBody]

----------------------------------------------------------------------------
(* Effect primitives: app/services/voice_effects.py.  A primitive returns   *)
(* [out, raised]: raised is TRUE when its body raised and the except clause *)
(* returned the input.  A waveform is a sequence; sample n of the code      *)
(* (counted from 0) is element n + 1.                                       *)

Result(w, r) == [out |-> w, raised |-> r]

\* Faulty variant: the exception not answered with the input (C2 tells it from
\* apply_pitch_shift)
apply_pitch_shift_no_except(audio, fault, y) ==
    IF fault THEN Result(<<>>, TRUE) ELSE Result(y, FALSE)

\* librosa.effects.pitch_shift is an external phase vocoder: when it does not
\* raise (fault) it returns some waveform y of the input's length.
apply_pitch_shift(audio, fault, y) ==
    IF fault THEN Result(audio, TRUE) ELSE Result(y, FALSE)

\* librosa.effects.time_stretch returns int(round(len / rate)) samples
StretchLen(n, rate) == RoundHalfEven(n * FP, rate)

apply_speed_change(audio, fault, y) ==
    IF fault THEN Result(audio, TRUE) ELSE Result(y, FALSE)

\* sin(2 pi x) for x = k / 12 of a cycle
SinTable == <<0, 500, 866, 1000, 866, 500, 0, -500, -866, -1000, -866, -500>>

CarrierFreq(intensity) == 30 * FP + 100 * intensity

\* carrier = sin(2 pi carrier_freq t), t = n / sr, to the nearest twelfth of a cycle
Carrier(n, sr, intensity) ==
    SinTable[(RoundDiv(12 * CarrierFreq(intensity) * n, FP * sr) % 12) + 1]

\* Faulty variant: the bit depth rounded to the nearest integer (C21 tells it
\* from BitDepth)
BitDepthRounded(intensity) == 8 + RoundHalfEven((FP - intensity) * 8, FP)

\* bit_depth = int(8 + (1 - intensity) * 8)
BitDepth(intensity) == TruncDiv(8 * FP + (FP - intensity) * 8, FP)

QuantizeThreshold == 300

Quantize(x, max_val) == RoundDiv(RoundDiv(x * max_val, FP) * FP, max_val)

apply_robot_voice(audio, sr, intensity) ==
    LET ring(n) == MulFP(audio[n], FP + MulFP(intensity, Carrier(n - 1, sr, intensity)))
        max_val == Pow2(BitDepth(intensity) - 1)
    IN  Result([n \in 1..Len(audio) |->
                   IF intensity > QuantizeThreshold
                     THEN Quantize(ring(n), max_val) ELSE ring(n)],
               FALSE)

\* round(delay * sr), the delay as section 4.2 of the specification gives it
DelaySamplesRounded(delay, sr) == RoundHalfEven(delay * sr, FP)

\* delay_samples = int(delay * sr)
DelaySamples(delay, sr) == TruncDiv(delay * sr, FP)

\* delayed[d:] = audio[:-d] * gain on a zero buffer.  With d = 0 the source
\* slice audio[:-0] is empty while the target is the whole buffer, and numpy
\* raises ValueError unless the buffer is empty too.
SliceRaises(audio, d) == d = 0 /\ Len(audio) > 0

Delayed(audio, d, gain) ==
    [n \in 1..Len(audio) |-> IF n > d THEN MulFP(audio[n - d], gain) ELSE 0]

\* Faulty variant: a recursive (feedback) echo (C7 tells it from apply_echo)
apply_echo_feedback(audio, sr, delay, decay) ==
    LET d == DelaySamples(delay, sr)
        fb[n \in 1..Len(audio)] ==
            IF n > d THEN audio[n] + MulFP(fb[n - d], decay) ELSE audio[n]
    IN  IF SliceRaises(audio, d) THEN Result(audio, TRUE)
        ELSE Result(fb, FALSE)

\* Faulty variant: the buffer extended by the delay (C8 tells it from apply_echo)
apply_echo_padded(audio, sr, delay, decay) ==
    LET d == DelaySamples(delay, sr)
    IN  IF SliceRaises(audio, d) THEN Result(audio, TRUE)
        ELSE Result([n \in 1..(Len(audio) + d) |->
                        (IF n <= Len(audio) THEN audio[n] ELSE 0)
                        + (IF n > d THEN MulFP(audio[n - d], decay) ELSE 0)], FALSE)

apply_echo(audio, sr, delay, decay) ==
    LET d == DelaySamples(delay, sr)
        delayed_audio == Delayed(audio, d, decay)
    IN  IF SliceRaises(audio, d) THEN Result(audio, TRUE)
        ELSE Result([n \in 1..Len(audio) |-> audio[n] + delayed_audio[n]], FALSE)

ReverbDelays == <<30, 50, 80, 130, 210, 340>>

\* int(delay * sr * room_size)
TapSamples(i, sr, room_size) == TruncDiv(ReverbDelays[i] * sr * room_size, FP * FP)

\* (0.7 - damping * 0.4) ** (i + 1), i counted from 0: tap i of the model is
\* tap i - 1 of the code
DecayFactor(i, damping) == PowFP(700 - MulFP(damping, 400), i)

\* the taps the loop adds: those with delay_samples < len(audio)
ActiveTaps(audio, sr, room_size) ==
    {i \in 1..Len(ReverbDelays) : TapSamples(i, sr, room_size) < Len(audio)}

RECURSIVE SumTaps(_, _, _, _, _, _)
SumTaps(audio, sr, room_size, damping, n, i) ==
    IF i = 0 THEN 0
    ELSE SumTaps(audio, sr, room_size, damping, n, i - 1)
         + (IF i \in ActiveTaps(audio, sr, room_size)
              THEN Delayed(audio, TapSamples(i, sr, room_size), DecayFactor(i, damping))[n]
              ELSE 0)

apply_reverb(audio, sr, room_size, damping) ==
    IF \E i \in ActiveTaps(audio, sr, room_size) :
           SliceRaises(audio, TapSamples(i, sr, room_size))
      THEN Result(audio, TRUE)
    ELSE Result([n \in 1..Len(audio) |->
                    audio[n] + SumTaps(audio, sr, room_size, damping, n, Len(ReverbDelays))],
                FALSE)

Headroom == 950

Peak(audio) == MaxOf({Abs(audio[n]) : n \in 1..Len(audio)})

\* Faulty variant: every sample scaled by 0.95, whatever the peak (C11 tells
\* it from normalize_audio)
normalize_audio_fixed_gain(audio) ==
    IF Len(audio) = 0 THEN Result(audio, TRUE)
    ELSE IF Peak(audio) > 0
      THEN Result([n \in 1..Len(audio) |-> MulFP(audio[n], Headroom)], FALSE)
    ELSE Result(audio, FALSE)

\* Faulty variant: scaled to a peak of 1.0 (C10 tells it from normalize_audio)
normalize_audio_no_headroom(audio) ==
    IF Len(audio) = 0 THEN Result(audio, TRUE)
    ELSE IF Peak(audio) > 0
      THEN Result([n \in 1..Len(audio) |-> DivFP(audio[n], Peak(audio))], FALSE)
    ELSE Result(audio, FALSE)

\* np.max of an empty array raises ValueError
normalize_audio(audio) ==
    IF Len(audio) = 0 THEN Result(audio, TRUE)
    ELSE IF Peak(audio) > 0
      THEN Result([n \in 1..Len(audio) |->
                      MulFP(DivFP(audio[n], Peak(audio)), Headroom)], FALSE)
    ELSE Result(audio, FALSE)

\* threshold and ratio defaults of _apply_compression
CompressionThreshold == 500
CompressionRatio == 4000

\* Faulty variant: the compressed magnitude without the sign of the sample
\* (C22 tells it from apply_compression)
apply_compression_unsigned(audio, threshold, ratio) ==
    Result([n \in 1..Len(audio) |->
               IF Abs(audio[n]) > threshold
                 THEN threshold + DivFP(Abs(audio[n]) - threshold, ratio)
               ELSE audio[n]],
           FALSE)

\* np.where(|x| > threshold, sign(x) * (threshold + (|x| - threshold) / ratio), x)
apply_compression(audio, threshold, ratio) ==
    Result([n \in 1..Len(audio) |->
               IF Abs(audio[n]) > threshold
                 THEN Sign(audio[n]) * (threshold + DivFP(Abs(audio[n]) - threshold, ratio))
               ELSE audio[n]],
           FALSE)

----------------------------------------------------------------------------
(* Bounds of the model *)

MaxLen == 2

\* sample values of uploaded audio, and of what the external DSP returns
Samples == {-500, 1000}
ExtSamples == {-250, 750}

SampleRates == {10, 40}

RECURSIVE SeqsOfLen(_, _)
SeqsOfLen(S, n) ==
    IF n = 0 THEN {<<>>}
    ELSE {Append(w, x) : w \in SeqsOfLen(S, n - 1), x \in S}

Waveforms == UNION {SeqsOfLen(Samples, n) : n \in 0..MaxLen}

\* an upload is undecodable bytes or the audio a decoder finds in it
Garbage == [decodable |-> FALSE, samples |-> <<>>, sr |-> 0]
Audio(w, sr) == [decodable |-> TRUE, samples |-> w, sr |-> sr]
Uploads == {Garbage} \cup {Audio(w, sr) : w \in Waveforms, sr \in SampleRates}

\* form fields: the numeric ones with a value outside the range last
NumericFields ==
    [pitch_shift      : {0, 2000, 13000},
     speed_change     : {1000, 2000, 5000},
     robot_intensity  : {0, 700, 1500},
     echo_delay       : {100, 2500},
     echo_decay       : {500, 950},
     reverb_room_size : {1000, 50},
     reverb_damping   : {500, 50},
     robot_voice      : BOOLEAN,
     echo             : BOOLEAN,
     reverb           : BOOLEAN,
     normalize        : BOOLEAN]

\* the Form(...) defaults of both handlers
Defaults ==
    [pitch_shift |-> 0, speed_change |-> 1000, robot_intensity |-> 500,
     echo_delay |-> 300, echo_decay |-> 500, reverb_room_size |-> 500,
     reverb_damping |-> 500, robot_voice |-> FALSE, echo |-> FALSE,
     reverb |-> FALSE, normalize |-> TRUE]

Request(endpoint, filename, output_format, duration_limit, f) ==
    [endpoint |-> endpoint, filename |-> filename, output_format |-> output_format,
     duration_limit |-> duration_limit,
     pitch_shift |-> f.pitch_shift, speed_change |-> f.speed_change,
     robot_voice |-> f.robot_voice, robot_intensity |-> f.robot_intensity,
     echo |-> f.echo, echo_delay |-> f.echo_delay, echo_decay |-> f.echo_decay,
     reverb |-> f.reverb, reverb_room_size |-> f.reverb_room_size,
     reverb_damping |-> f.reverb_damping, normalize |-> f.normalize]

\* requests turned down for something other than a range
OtherRequests ==
    {Request("apply", "", "wav", 30000, Defaults),
     Request("apply", "voice.wav", "aac", 30000, Defaults),
     Request("preview", "voice.wav", "wav", 70000, Defaults)}

NoRequest == Request("none", "", "", 0, Defaults)

----------------------------------------------------------------------------
(* The handlers: app/api/voice_effects.py, and apply_effects *)

\* the effects dictionary both handlers build from the form fields
EffectsDict(r) ==
    [pitch_shift |-> r.pitch_shift, speed_change |-> r.speed_change,
     robot_voice |-> r.robot_voice, robot_intensity |-> r.robot_intensity,
     echo |-> r.echo, echo_delay |-> r.echo_delay, echo_decay |-> r.echo_decay,
     reverb |-> r.reverb, reverb_room_size |-> r.reverb_room_size,
     reverb_damping |-> r.reverb_damping, normalize |-> r.normalize]

\* Faulty variant: reverb before echo (C1 tells it from StageOrder)
StageOrderEchoLast == <<"pitch_shift", "speed_change", "robot_voice", "reverb", "echo", "normalize">>

\* the order of the if statements of apply_effects
StageOrder == <<"pitch_shift", "speed_change", "robot_voice", "echo", "reverb", "normalize">>

StageIndex(s) == CHOOSE i \in 1..Len(StageOrder) : StageOrder[i] = s

AfterStage(s) ==
    IF StageIndex(s) = Len(StageOrder) THEN "encode" ELSE StageOrder[StageIndex(s) + 1]

\* Faulty variant: pitch and speed stages run whatever their value (C9 tells it
\* from StageEnabled)
StageEnabledNoIdentityGuard(s, effects) ==
    CASE s = "pitch_shift"  -> TRUE
      [] s = "speed_change" -> TRUE
      [] s = "robot_voice"  -> effects.robot_voice
      [] s = "echo"         -> effects.echo
      [] s = "reverb"       -> effects.reverb
      [] s = "normalize"    -> effects.normalize

\* the condition of each if statement of apply_effects
StageEnabled(s, effects) ==
    CASE s = "pitch_shift"  -> effects.pitch_shift # 0
      [] s = "speed_change" -> effects.speed_change # FP
      [] s = "robot_voice"  -> effects.robot_voice
      [] s = "echo"         -> effects.echo
      [] s = "reverb"       -> effects.reverb
      [] s = "normalize"    -> effects.normalize

\* soundfile writes floats as 16-bit PCM, clipped; a decoder reads them back
Pcm16(x) ==
    LET q == (x * 32768) \div FP
    IN  IF q > 32767 THEN 32767 ELSE IF q < -32768 THEN -32768 ELSE q

WavRoundTrip(w) == [n \in 1..Len(w) |-> RoundDiv(Pcm16(w[n]) * FP, 32768)]

\* audio_data[:max_samples], max_samples = int(duration_limit * sample_rate)
Trim(w, duration_limit, sr) ==
    LET max_samples == TruncDiv(duration_limit * sr, FP)
    IN  IF Len(w) > max_samples THEN SubSeq(w, 1, max_samples) ELSE w

Unlink(fs, names) == [f \in DOMAIN fs \ names |-> fs[f]]

WriteFile(fs, name, content) ==
    [f \in DOMAIN fs \cup {name} |-> IF f = name THEN content ELSE fs[f]]

NoFiles == [f \in {} |-> Garbage]

Init ==
    /\ pc = "idle"
    /\ req = NoRequest
    /\ files = NoFiles
    /\ audio_data = <<>>
    /\ sample_rate = 0
    /\ processed_audio = <<>>
    /\ log = <<>>
    /\ raised = {}
    /\ response = NoResponse
    /\ arrays = <<>>
    /\ TtsIdle

Receive ==
    /\ pc = "idle"
    /\ \/ \E fmt \in {"wav", "mp3"}, f \in NumericFields :
              req' = Request("apply", "voice.wav", fmt, 30000, f)
       \/ \E f \in NumericFields : req' = Request("preview", "voice.wav", "wav", 30000, f)
       \/ \E r \in OtherRequests : req' = r
    /\ pc' = "validate"
    /\ UNCHANGED <<files, audio_data, sample_rate, arrays, tts_state, processed_audio, log, raised, response>>

\* the if statements before the temporary file is made
CheckParameters ==
    /\ pc = "validate"
    /\ IF Validate(req) = "ok"
         THEN /\ pc' = "save"
              /\ UNCHANGED response
         ELSE /\ pc' = "done"
              /\ response' = [status |-> 400, detail |-> Validate(req), effects_applied |-> <<>>,
                                body |-> NoBody]
    /\ UNCHANGED <<req, files, audio_data, sample_rate, arrays, tts_state, processed_audio, log, raised>>

\* NamedTemporaryFile(delete=False), audio_file.read(), temp_input.write(content)
SaveUpload ==
    /\ pc = "save"
    /\ \E content \in Uploads : files' = WriteFile(files, "temp_input", content)
    /\ log' = Append(log, "temp_write")
    /\ pc' = IF req.endpoint = "apply" THEN "load" ELSE "preview_load"
    /\ UNCHANGED <<req, audio_data, sample_rate, arrays, tts_state, processed_audio, raised, response>>

\* except Exception of the handler: unlink temp_input, then HTTP 500
Fail(event, detail) ==
    /\ files' = Unlink(files, {"temp_input"})
    /\ log' = Append(log, event)
    /\ response' = [status |-> 500, detail |-> detail, effects_applied |-> <<>>, body |-> NoBody]
    /\ pc' = "done"

\* /preview: load the upload, trim it, write it to temp_preview
PreviewTrim ==
    /\ pc = "preview_load"
    /\ LET up == files["temp_input"]
       IN  IF ~up.decodable
             THEN /\ Fail("decode_failed", "Failed to generate preview")
                  /\ UNCHANGED <<req, audio_data, sample_rate, arrays, tts_state, processed_audio, raised>>
             ELSE /\ files' = WriteFile(files, "temp_preview",
                                  Audio(WavRoundTrip(Trim(up.samples, req.duration_limit, up.sr)), up.sr))
                  /\ log' = log \o <<"decode", "trim", "temp_write">>
                  /\ pc' = "load"
                  /\ UNCHANGED <<req, audio_data, sample_rate, arrays, tts_state, processed_audio, raised, response>>

InputFile == IF req.endpoint = "apply" THEN "temp_input" ELSE "temp_preview"

FailDetail == IF req.endpoint = "apply" THEN "Failed to process audio" ELSE "Failed to generate preview"

\* apply_effects: _load_audio, then processed_audio = audio_data.copy()
LoadAudio ==
    /\ pc = "load"
    /\ LET up == files[InputFile]
       IN  IF ~up.decodable
             THEN /\ Fail("decode_failed", FailDetail)
                  /\ UNCHANGED <<req, audio_data, sample_rate, arrays, tts_state, processed_audio, raised>>
             ELSE /\ audio_data' = up.samples
                  /\ sample_rate' = up.sr
                  /\ processed_audio' = up.samples
                  /\ log' = Append(log, "decode")
                  /\ pc' = StageOrder[1]
                  /\ UNCHANGED <<req, files, raised, response, arrays, tts_state>>

\* one if statement of apply_effects: the primitive runs when the stage is
\* enabled, and processed_audio becomes what it returns
Stage(s, result) ==
    /\ pc = s
    /\ pc' = AfterStage(s)
    /\ IF StageEnabled(s, EffectsDict(req))
         THEN /\ processed_audio' = result.out
              /\ raised' = IF result.raised THEN raised \cup {s} ELSE raised
              /\ log' = Append(log, s)
         ELSE UNCHANGED <<processed_audio, raised, log>>
    /\ UNCHANGED <<req, files, audio_data, sample_rate, arrays, tts_state, response>>

StagePitchShift ==
    \E fault \in BOOLEAN, y \in SeqsOfLen(ExtSamples, Len(processed_audio)) :
        Stage("pitch_shift", apply_pitch_shift(processed_audio, fault, y))

StageSpeedChange ==
    \E fault \in BOOLEAN,
       y \in SeqsOfLen(ExtSamples, StretchLen(Len(processed_audio), req.speed_change)) :
        Stage("speed_change", apply_speed_change(processed_audio, fault, y))

StageRobotVoice ==
    Stage("robot_voice", apply_robot_voice(processed_audio, sample_rate, req.robot_intensity))

StageEcho ==
    Stage("echo", apply_echo(processed_audio, sample_rate, req.echo_delay, req.echo_decay))

StageReverb ==
    Stage("reverb", apply_reverb(processed_audio, sample_rate,
                                 req.reverb_room_size, req.reverb_damping))

StageNormalize ==
    Stage("normalize", normalize_audio(processed_audio))

\* (audio * 32767).astype(np.int16): truncated toward zero; a product outside
\* the int16 range either wraps or saturates, as the platform's conversion does
Int16(x, saturates) ==
    LET q == TruncDiv(x * 32767, FP)
    IN  IF q \in -32768..32767 THEN q
        ELSE IF saturates THEN (IF q > 0 THEN 32767 ELSE -32768)
        ELSE ((q + 32768) % 65536) - 32768

\* Faulty variant: soundfile whatever the format (C16 tells it from Encoder)
EncoderAlwaysSoundfile(format) == "soundfile"

\* if format.lower() == 'wav': sf.write, else AudioSegment.export
Encoder(format) == IF format = "wav" THEN "soundfile" ELSE "pydub"

\* the file _save_processed_audio writes: 16-bit samples in either case
Encoded(format, audio, sr, saturates) ==
    [format |-> format, encoder |-> Encoder(format), sr |-> sr,
     pcm |-> [n \in 1..Len(audio) |->
                 IF Encoder(format) = "soundfile" THEN Pcm16(audio[n])
                 ELSE Int16(audio[n], saturates)]]

\* _save_processed_audio: soundfile for wav, pydub's export for the other
\* formats. Either write can raise (export when it has no encoder for the
\* format, both on an I/O error); the exception passes through apply_effects
\* to the handler.
SaveProcessedAudio ==
    /\ pc = "encode"
    /\ LET fmt == IF req.endpoint = "apply" THEN req.output_format ELSE "wav"
       IN  \E export_raises \in BOOLEAN, saturates \in BOOLEAN :
             IF export_raises
               THEN /\ Fail("encode_failed", FailDetail)
                    /\ UNCHANGED <<req, audio_data, sample_rate, arrays, tts_state, processed_audio, raised>>
               ELSE /\ files' = WriteFile(files, "output",
                                          Encoded(fmt, processed_audio, sample_rate, saturates))
                    /\ log' = Append(log, "encode")
                    /\ pc' = "respond"
                    /\ UNCHANGED <<req, audio_data, sample_rate, arrays, tts_state, processed_audio, raised, response>>

\* FileResponse(output_path, headers={"X-Effects-Applied": json.dumps(effects)})
Respond ==
    /\ pc = "respond"
    /\ response' = [status |-> 200, detail |-> "", effects_applied |-> EffectsDict(req),
                    body |-> NoBody]
    /\ pc' = "done"
    /\ UNCHANGED <<req, files, audio_data, sample_rate, arrays, tts_state, processed_audio, log, raised>>

\* cleanup_temp_files / cleanup_preview_files, scheduled after a 200
CleanupTempFiles ==
    /\ pc = "done"
    /\ response.status = 200
    /\ files # NoFiles
    /\ files' = NoFiles
    /\ UNCHANGED <<pc, req, audio_data, sample_rate, arrays, tts_state, processed_audio, log, raised, response>>

Next ==
    \/ Receive
    \/ CheckParameters
    \/ SaveUpload
    \/ PreviewTrim
    \/ LoadAudio
    \/ StagePitchShift
    \/ StageSpeedChange
    \/ StageRobotVoice
    \/ StageEcho
    \/ StageReverb
    \/ StageNormalize
    \/ SaveProcessedAudio
    \/ Respond
    \/ CleanupTempFiles

Spec == Init /\ [][Next]_vars

----------------------------------------------------------------------------
(* What the specification says, for the properties below *)

\* section 4.3: pitch shift -> speed change -> robot -> echo -> reverb -> normalize
CanonicalOrder == <<"pitch_shift", "speed_change", "robot_voice", "echo", "reverb", "normalize">>

Stages == Range(CanonicalOrder)

Rank(s) == CHOOSE i \in 1..Len(CanonicalOrder) : CanonicalOrder[i] = s

\* section 6, the parameter range table, in the order the validator checks
RangeTable ==
    <<[field |-> "pitch_shift",      lo |-> -12000, hi |-> 12000, named |-> "Pitch shift"],
      [field |-> "speed_change",     lo |-> 250,    hi |-> 4000,  named |-> "Speed change"],
      [field |-> "robot_intensity",  lo |-> 0,      hi |-> 1000,  named |-> "Robot intensity"],
      [field |-> "echo_delay",       lo |-> 100,    hi |-> 2000,  named |-> "Echo delay"],
      [field |-> "echo_decay",       lo |-> 100,    hi |-> 900,   named |-> "Echo decay"],
      [field |-> "reverb_room_size", lo |-> 100,    hi |-> 1000,  named |-> "Reverb room size"],
      [field |-> "reverb_damping",   lo |-> 100,    hi |-> 1000,  named |-> "Reverb damping"]>>

FieldValue(r, f) ==
    CASE f = "pitch_shift"      -> r.pitch_shift
      [] f = "speed_change"     -> r.speed_change
      [] f = "robot_intensity"  -> r.robot_intensity
      [] f = "echo_delay"       -> r.echo_delay
      [] f = "echo_decay"       -> r.echo_decay
      [] f = "reverb_room_size" -> r.reverb_room_size
      [] f = "reverb_damping"   -> r.reverb_damping

OutOfRange(r, i) ==
    LET v == FieldValue(r, RangeTable[i].field)
    IN  v < RangeTable[i].lo \/ v > RangeTable[i].hi

BadFields(r) == {i \in 1..Len(RangeTable) : OutOfRange(r, i)}

\* the field a rejection names: the words its detail starts with
FieldNamed(detail) ==
    {i \in 1..Len(RangeTable) :
        \E rest \in {" must be between -12 and +12 semitones",
                     " must be between 0.25 and 4.0",
                     " must be between 0.0 and 1.0",
                     " must be between 0.1 and 2.0 seconds",
                     " must be between 0.1 and 0.9",
                     " must be between 0.1 and 1.0"} :
            detail = RangeTable[i].named \o rest}

StagesRun == {log[i] : i \in 1..Len(log)} \cap Stages

\* a stage the configuration asks for: absent/disabled, pitch 0 and speed 1.0
\* mean "skip this stage"
Requested(s, r) ==
    CASE s = "pitch_shift"  -> r.pitch_shift # 0
      [] s = "speed_change" -> r.speed_change # 1000
      [] s = "robot_voice"  -> r.robot_voice
      [] s = "echo"         -> r.echo
      [] s = "reverb"       -> r.reverb
      [] s = "normalize"    -> r.normalize

StagesOver == pc \in {"encode", "respond"} \/ (pc = "done" /\ response.status = 200)

----------------------------------------------------------------------------
(* C1: apply_effects runs the enabled stages in the canonical order         *)
(* pitch shift, speed change, robot, echo, reverb, normalize, whatever the  *)
(* configuration enables: no stage runs before one that precedes it in this *)
(* order, each runs at most once, and once the stages are over exactly the  *)
(* requested ones have run.                                                 *)
C1_FixedStageOrder ==
    /\ \A i, j \in 1..Len(log) :
          (i < j /\ log[i] \in Stages /\ log[j] \in Stages) => Rank(log[i]) < Rank(log[j])
    /\ StagesOver => StagesRun = {s \in Stages : Requested(s, req)}

C1_Witness ==
    /\ pc = "respond"
    /\ StagesRun = Stages
    /\ raised = {}

(* C2: a primitive that raises does not abort the call: the failing stage   *)
(* leaves the waveform as it was before the stage, every later requested    *)
(* stage still runs, the call is answered 200 unless decode or encode       *)
(* failed, and when every requested stage failed the result is the decoded  *)
(* input.                                                                   *)
C2_StageFailureIsolated ==
    /\ [][raised' # raised => processed_audio' = processed_audio]_vars
    /\ [](StagesOver =>
            /\ StagesRun = {s \in Stages : Requested(s, req)}
            /\ raised \subseteq StagesRun
            /\ (raised = StagesRun => processed_audio = audio_data))
    /\ []((pc = "done" /\ response.status # 200) =>
            \/ response.status = 400 /\ log = <<>>
            \/ response.status = 500 /\ log[Len(log)] \in {"decode_failed", "encode_failed"})

C2_Witness ==
    /\ pc = "done"
    /\ response.status = 200
    /\ "pitch_shift" \in raised
    /\ {"echo", "normalize"} \subseteq StagesRun \ raised
    /\ processed_audio # audio_data

\* what the X-Effects-Applied header of a 200 reports as applied
ReportedApplied(s, header) ==
    CASE s = "pitch_shift"  -> header.pitch_shift # 0
      [] s = "speed_change" -> header.speed_change # 1000
      [] s = "robot_voice"  -> header.robot_voice
      [] s = "echo"         -> header.echo
      [] s = "reverb"       -> header.reverb
      [] s = "normalize"    -> header.normalize

(* C3: a successful call reports which requested effects were applied and   *)
(* which were skipped: a stage whose primitive raised is never reported as  *)
(* applied.                                                                 *)
C3_RaisedStageNotReportedApplied ==
    (pc = "done" /\ response.status = 200) =>
        \A s \in raised : ~ReportedApplied(s, response.effects_applied)

(* C4: a request with an out-of-range parameter is rejected before any      *)
(* processing: nothing is written to a temporary file, nothing is decoded,  *)
(* no stage and no encode runs, and the answer is a 400.                    *)
C4_RejectedBeforeProcessing ==
    (pc # "idle" /\ BadFields(req) # {}) =>
        /\ pc \in {"validate", "done"}
        /\ log = <<>>
        /\ files = NoFiles
        /\ pc = "done" => response.status = 400

C4_Witness ==
    /\ pc = "done"
    /\ response.status = 400
    /\ BadFields(req) = {7}

(* C8: robot, echo, reverb and normalize return a waveform of exactly the   *)
(* input length, also for an input shorter than the echo delay or a reverb  *)
(* tap offset, so a call with speed_change = 1.0 returns as many samples as *)
(* were decoded.                                                            *)
C8_OnlySpeedChangesLength ==
    /\ [][(pc \in {"robot_voice", "echo", "reverb", "normalize"})
            => (Len(processed_audio') = Len(processed_audio))]_vars
    /\ []((StagesOver /\ req.speed_change = 1000)
            => Len(processed_audio) = Len(audio_data))

C8_Witness ==
    /\ pc = "respond"
    /\ req.speed_change = 1000
    /\ {"robot_voice", "echo", "reverb", "normalize"} \subseteq StagesRun \ raised
    /\ Len(processed_audio) >= 2
    /\ DelaySamples(req.echo_delay, sample_rate) > Len(processed_audio)

IdentityConfig(r) == \A s \in Stages : ~Requested(s, r)

(* C9: pitch shift 0, speed 1.0 and robot intensity 0.0 leave the waveform  *)
(* exactly as it was, and a call with pitch shift 0, speed 1.0 and robot,   *)
(* echo, reverb and normalize disabled runs no stage and returns the        *)
(* decoded waveform unchanged.                                              *)
C9_IdentityParameters ==
    /\ [][(pc = "pitch_shift" /\ req.pitch_shift = 0)
            => (processed_audio' = processed_audio)]_vars
    /\ [][(pc = "speed_change" /\ req.speed_change = 1000)
            => (processed_audio' = processed_audio)]_vars
    /\ [][(pc = "robot_voice" /\ req.robot_intensity = 0)
            => (processed_audio' = processed_audio)]_vars
    /\ []((StagesOver /\ IdentityConfig(req))
            => (processed_audio = audio_data /\ StagesRun = {} /\ raised = {}))

C9_Witness ==
    /\ pc = "echo"
    /\ req.pitch_shift = 0
    /\ req.speed_change = 1000
    /\ req.robot_intensity = 0
    /\ "robot_voice" \in StagesRun
    /\ Len(processed_audio) >= 2

\* the format the call encodes to
TargetFormat == IF req.endpoint = "apply" THEN req.output_format ELSE "wav"

(* C16: encode writes WAV through the native PCM path and every other       *)
(* format through the conversion path; when the conversion path has no      *)
(* encoder for the format the call fails with an encode error and is never  *)
(* answered 200; and a request whose output format is not one of wav, mp3,  *)
(* ogg, flac is rejected and no output file is produced.                    *)
C16_EncodePaths ==
    /\ "output" \in DOMAIN files =>
          /\ files["output"].format = TargetFormat
          /\ files["output"].encoder = IF TargetFormat = "wav" THEN "soundfile" ELSE "pydub"
    /\ (\E i \in 1..Len(log) : log[i] = "encode_failed") =>
          /\ pc = "done"
          /\ response.status = 500
    /\ (pc # "idle" /\ req.endpoint = "apply"
          /\ req.output_format \notin {"wav", "mp3", "ogg", "flac"}) =>
          /\ pc \in {"validate", "done"}
          /\ pc = "done" => response.status = 400
          /\ files = NoFiles

C16_Witness ==
    /\ pc = "respond"
    /\ req.output_format = "mp3"
    /\ files["output"].encoder = "pydub"
    /\ Len(files["output"].pcm) >= 2
    /\ \E n \in 1..Len(processed_audio) : processed_audio[n] > 0

\* the samples a decoder reads back from a 16-bit file
DecodedBack(pcm) == [n \in 1..Len(pcm) |-> RoundDiv(pcm[n] * FP, 32768)]

(* C19: a waveform encoded to WAV and decoded back has every sample within  *)
(* one quantization step of the original, for every waveform the pipeline   *)
(* can output, those of echo or reverb without normalize, whose samples     *)
(* can exceed unit amplitude, included.                                     *)
C19_WavRoundTrip ==
    (pc = "respond" /\ files["output"].encoder = "soundfile") =>
        /\ Len(files["output"].pcm) = Len(processed_audio)
        /\ files["output"].sr = sample_rate
        /\ \A n \in 1..Len(processed_audio) :
              Abs(DecodedBack(files["output"].pcm)[n] - processed_audio[n]) <= 1

(* C25: when an /apply or /preview request fails after its upload was      *)
(* written to disk (decode, trimming, a stage or encode fails), every       *)
(* temporary file the request created, the temp input and for /preview the  *)
(* trimmed preview file, has been deleted when the error response is        *)
(* returned.                                                                *)
C25_TempFilesDeletedOnError ==
    (pc = "done" /\ response.status = 500) =>
        /\ "temp_input" \notin DOMAIN files
        /\ "temp_preview" \notin DOMAIN files

(* C24: in the compressed-format encode path (mp3, ogg, flac) the          *)
(* conversion to 16-bit integers never overflows: for every waveform the    *)
(* pipeline can output, echo or reverb output without normalize included,   *)
(* each sample times 32767 lies in -32768..32767, so no encoded sample      *)
(* wraps around or changes sign.                                            *)
C24_NoInt16Overflow ==
    (pc = "respond" /\ files["output"].encoder = "pydub") =>
        \A n \in 1..Len(processed_audio) :
            LET scaled == (Abs(processed_audio[n]) * 32767) \div 1000
                stored == files["output"].pcm[n]
            IN  /\ scaled <= 32767
                /\ Abs(stored) = scaled
                /\ (stored > 0) = (processed_audio[n] > 0)

----------------------------------------------------------------------------
(* The validator alone, on every combination of values at and just outside  *)
(* the ends of the seven ranges                                             *)

EdgeFields ==
    [pitch_shift      : {-13000, -12000, 12000, 13000},
     speed_change     : {240, 250, 4000, 4010},
     robot_intensity  : {-10, 0, 1000, 1010},
     echo_delay       : {90, 100, 2000, 2010},
     echo_decay       : {90, 100, 900, 910},
     reverb_room_size : {90, 100, 1000, 1010},
     reverb_damping   : {90, 100, 1000, 1010},
     robot_voice      : {FALSE},
     echo             : {TRUE},
     reverb           : {TRUE},
     normalize        : {TRUE}]

InitValidate ==
    /\ pc = "validate"
    /\ \/ \E name \in {"", "voice.wav"}, f \in EdgeFields :
              req = Request("apply", name, "wav", 30000, f)
       \/ \E f \in EdgeFields : req = Request("preview", "voice.wav", "wav", 30000, f)
    /\ files = NoFiles
    /\ audio_data = <<>>
    /\ sample_rate = 0
    /\ processed_audio = <<>>
    /\ log = <<>>
    /\ raised = {}
    /\ response = NoResponse
    /\ arrays = <<>>
    /\ TtsIdle

SpecValidate == InitValidate /\ [][CheckParameters]_vars

Checked == pc \in {"save", "done"}

\* a request the handler does not turn down before it looks at the ranges
HasFileName(r) == r.endpoint = "preview" \/ r.filename # ""

MinOf(S) == CHOOSE x \in S : \A y \in S : x <= y

(* C5: the fields are checked in the order pitch shift, speed, robot        *)
(* intensity, echo delay, echo decay, reverb room size, reverb damping, and *)
(* the rejection names the earliest field out of range and no other.        *)
C5_FirstViolationReported ==
    (Checked /\ HasFileName(req) /\ BadFields(req) # {}) =>
        /\ response.status = 400
        /\ FieldNamed(response.detail) = {MinOf(BadFields(req))}

C5_Witness ==
    /\ pc = "done"
    /\ HasFileName(req)
    /\ BadFields(req) = {3, 5, 7}
    /\ FieldNamed(response.detail) = {3}

----------------------------------------------------------------------------
(* The primitives alone, each applied once to a waveform of the bounded set *)

MaxPrimLen == 3

PrimSamples == {-1000, -300, 0, 600}

PrimRates == {5, 10, 40}

PrimWaveforms == UNION {SeqsOfLen(PrimSamples, n) : n \in 0..MaxPrimLen}

InitPrim ==
    /\ pc = "primitive"
    /\ req = NoRequest
    /\ files = NoFiles
    /\ audio_data \in PrimWaveforms
    /\ sample_rate \in PrimRates
    /\ processed_audio = audio_data
    /\ log = <<>>
    /\ raised = {}
    /\ response = NoResponse
    /\ arrays = <<>>
    /\ TtsIdle

\* one call of a primitive on audio_data; req keeps the arguments it was given
Call(s, r, result) ==
    /\ pc = "primitive"
    /\ pc' = "returned"
    /\ req' = r
    /\ processed_audio' = result.out
    /\ raised' = IF result.raised THEN {s} ELSE {}
    /\ log' = <<s>>
    /\ UNCHANGED <<files, audio_data, sample_rate, arrays, tts_state, response>>

Returned(s) == pc = "returned" /\ log = <<s>>

CallEcho ==
    \E delay \in {100, 150, 250, 300, 2000}, decay \in {100, 500, 900} :
        Call("echo", [NoRequest EXCEPT !.echo = TRUE, !.echo_delay = delay, !.echo_decay = decay],
             apply_echo(audio_data, sample_rate, delay, decay))

CallNormalize ==
    Call("normalize", NoRequest, normalize_audio(audio_data))

\* _normalize_audio called on what the first call returned
CallNormalizeAgain ==
    /\ Returned("normalize")
    /\ raised = {}
    /\ pc' = "returned_again"
    /\ processed_audio' = normalize_audio(processed_audio).out
    /\ log' = <<"normalize", "normalize">>
    /\ UNCHANGED <<req, files, audio_data, sample_rate, arrays, tts_state, raised, response>>

CallReverb ==
    \E room_size \in {500, 1000}, damping \in {100, 500} :
        Call("reverb", [NoRequest EXCEPT !.reverb = TRUE, !.reverb_room_size = room_size,
                                         !.reverb_damping = damping],
             apply_reverb(audio_data, sample_rate, room_size, damping))

CallRobot ==
    \E intensity \in {0, 200, 300, 400, 800, 900, 1000} :
        Call("robot_voice", [NoRequest EXCEPT !.robot_voice = TRUE, !.robot_intensity = intensity],
             apply_robot_voice(audio_data, sample_rate, intensity))

\* _apply_compression(audio, threshold, ratio); enhance_audio_quality passes
\* the defaults 0.5 and 4.0
CallCompress ==
    \E threshold \in {300, CompressionThreshold}, ratio \in {1000, CompressionRatio} :
        Call("compression", [threshold |-> threshold, ratio |-> ratio],
             apply_compression(audio_data, threshold, ratio))

NextPrim ==
    \/ CallEcho
    \/ CallNormalize
    \/ CallNormalizeAgain
    \/ CallReverb
    \/ CallRobot
    \/ CallCompress

SpecPrim == InitPrim /\ [][NextPrim]_vars

\* Echo as the statement gives it, for a delay of d samples
EchoOf(w, d, decay) ==
    [n \in 1..Len(w) |-> IF n - 1 >= d THEN w[n] + MulFP(decay, w[n - d]) ELSE w[n]]

(* C7 as stated: with d = round(delay_s * sr), Echo(w)[n] = w[n] + decay *  *)
(* w[n - d] for n >= d and w[n] for n < d (here for the delays of at least  *)
(* one sample).                                                             *)
C7_EchoRoundedDelay ==
    (Returned("echo") /\ req.echo_delay * sample_rate >= 1000) =>
        processed_audio = EchoOf(audio_data, DelaySamplesRounded(req.echo_delay, sample_rate),
                                 req.echo_decay)

(* C7: with d = int(delay_s * sr), the product truncated toward zero, and   *)
(* d >= 1: Echo(w)[n] = w[n] + decay * w[n - d] for n >= d and w[n] for     *)
(* n < d, a single feed-forward tap; with d = 0 the stage raises and        *)
(* returns w; at 22050 Hz a delay of 0.3 s is 6615 samples.                 *)
C7_EchoTruncatedDelay ==
    Returned("echo") =>
        LET d == (req.echo_delay * sample_rate) \div 1000
        IN  /\ d >= 1 => (processed_audio = EchoOf(audio_data, d, req.echo_decay) /\ raised = {})
            /\ d = 0 => processed_audio = audio_data
            /\ DelaySamples(300, 22050) = 6615

C7_Witness ==
    /\ Returned("echo")
    /\ sample_rate = 10
    /\ req.echo_delay = 150
    /\ Len(audio_data) = 3
    /\ \A n \in 1..3 : audio_data[n] # 0
    /\ processed_audio[2] # audio_data[2]
    /\ processed_audio[3] = audio_data[3] + MulFP(req.echo_decay, audio_data[2])

(* C10: Normalize scales a non-silent waveform by the one positive factor   *)
(* 0.95 / peak, so that the largest absolute sample is 0.95 and no sample   *)
(* changes sign, and returns a silent waveform unchanged.                   *)
C10_NormalizePeak ==
    Returned("normalize") =>
        LET w == audio_data
            out == processed_audio
            peak == MaxOf({Abs(w[n]) : n \in 1..Len(w)} \cup {0})
        IN  /\ Len(out) = Len(w)
            /\ peak = 0 => out = w
            /\ peak > 0 =>
                 /\ MaxOf({Abs(out[n]) : n \in 1..Len(out)}) = 950
                 /\ \A n \in 1..Len(w) :
                      /\ Sign(out[n]) = Sign(w[n])
                      /\ Abs(out[n] * peak - 950 * w[n]) <= peak

C10_Witness ==
    /\ Returned("normalize")
    /\ Len(audio_data) = 3
    /\ \E n \in 1..3 : audio_data[n] = 600
    /\ \E n \in 1..3 : audio_data[n] = -300
    /\ \A n \in 1..3 : Abs(audio_data[n]) <= 600
    /\ \E n \in 1..3 : processed_audio[n] = 950

(* C11: Normalize is idempotent: normalizing what Normalize returned gives  *)
(* that waveform again, sample for sample.                                  *)
C11_NormalizeIdempotent ==
    pc = "returned_again" => processed_audio = normalize_audio(audio_data).out

C11_Witness ==
    /\ pc = "returned_again"
    /\ Len(audio_data) = 3
    /\ \E n \in 1..3 : audio_data[n] = 600
    /\ \E n \in 1..3 : audio_data[n] = -300
    /\ \A n \in 1..3 : Abs(audio_data[n]) <= 600
    /\ processed_audio # audio_data
    /\ \E n \in 1..3 : processed_audio[n] = -475

\* section 4.2, Reverb: base delays (ms), offsets and gains of taps 0..5
ListedDelays == <<30, 50, 80, 130, 210, 340>>

TapOffset(i, sr, room_size) == (ListedDelays[i + 1] * sr * room_size) \div (1000 * 1000)

TapGain(i, damping) == PowFP(700 - MulFP(damping, 400), i + 1)

RECURSIVE TapSum(_, _, _, _, _, _)
TapSum(w, sr, room_size, damping, n, i) ==
    IF i < 0 THEN 0
    ELSE TapSum(w, sr, room_size, damping, n, i - 1)
         + (IF TapOffset(i, sr, room_size) <= n - 1
              THEN MulFP(TapGain(i, damping), w[n - TapOffset(i, sr, room_size)])
              ELSE 0)

\* Reverb as the statement gives it (samples counted from 1 here)
ReverbOf(w, sr, room_size, damping) ==
    [n \in 1..Len(w) |-> w[n] + TapSum(w, sr, room_size, damping, n, 5)]

(* C20: Reverb adds to the dry signal six feed-forward taps of the dry      *)
(* input: tap i (0..5) has base delay 0.03, 0.05, 0.08, 0.13, 0.21, 0.34 s, *)
(* offset base delay * sr * room_size samples and gain                      *)
(* (0.7 - damping * 0.4)^(i+1), and output[n] = input[n] + the sum over the *)
(* taps with offset_i <= n of gain_i * input[n - offset_i].                 *)
C20_ReverbTaps ==
    Returned("reverb") =>
        processed_audio = ReverbOf(audio_data, sample_rate, req.reverb_room_size,
                                   req.reverb_damping)

\* the ring-modulated signal: audio * (1 + intensity * carrier)
RingOf(w, sr, intensity) ==
    [n \in 1..Len(w) |-> MulFP(w[n], FP + MulFP(intensity, Carrier(n - 1, sr, intensity)))]

\* a waveform rounded to the grid of a signed bits-bit amplitude
QuantizedTo(w, bits) ==
    [n \in 1..Len(w) |->
        RoundDiv(RoundDiv(w[n] * Pow2(bits - 1), FP) * FP, Pow2(bits - 1))]

\* RobotVoice with the bit depth depth(intensity) above the threshold 0.3
RobotOf(w, sr, intensity, bits) ==
    IF intensity > 300 THEN QuantizedTo(RingOf(w, sr, intensity), bits)
    ELSE RingOf(w, sr, intensity)

(* C21 as stated: RobotVoice quantizes only when intensity > 0.3, and then  *)
(* to 8 + round((1 - intensity) * 8) bits, a value in 8..16.                *)
C21_RobotRoundedDepth ==
    Returned("robot_voice") =>
        LET bits == 8 + RoundHalfEven((1000 - req.robot_intensity) * 8, 1000)
        IN  /\ processed_audio = RobotOf(audio_data, sample_rate, req.robot_intensity, bits)
            /\ req.robot_intensity > 300 => bits \in 8..16

(* C21: RobotVoice quantizes amplitude only when intensity > 0.3 (at or     *)
(* below 0.3 the output is the ring-modulated signal unquantized), and then *)
(* to int(8 + (1 - intensity) * 8) bits, the sum truncated toward zero, a   *)
(* value in 8..13 for every intensity in (0.3, 1.0].                        *)
C21_RobotTruncatedDepth ==
    Returned("robot_voice") =>
        LET bits == (8000 + (1000 - req.robot_intensity) * 8) \div 1000
        IN  /\ processed_audio = RobotOf(audio_data, sample_rate, req.robot_intensity, bits)
            /\ raised = {}
            /\ req.robot_intensity > 300 => bits \in 8..13

C21_Witness ==
    /\ Returned("robot_voice")
    /\ req.robot_intensity = 900
    /\ Len(audio_data) = 3
    /\ audio_data[1] = -300
    /\ processed_audio[1] = -297
    /\ processed_audio # RingOf(audio_data, sample_rate, 900)

\* the taps of section 4.2 whose offset lies before the end of w
TapsBeforeEnd(w, sr, room_size) == {i \in 0..5 : TapOffset(i, sr, room_size) < Len(w)}

RECURSIVE SumOfTaps(_, _, _, _, _, _)
SumOfTaps(w, sr, room_size, damping, n, taps) ==
    IF taps = {} THEN 0
    ELSE LET i == CHOOSE t \in taps : TRUE
             off == TapOffset(i, sr, room_size)
         IN  (IF n - 1 >= off THEN MulFP(TapGain(i, damping), w[n - off]) ELSE 0)
             + SumOfTaps(w, sr, room_size, damping, n, taps \ {i})

(* C30: a delay offset that reaches or exceeds the waveform length          *)
(* contributes nothing and raises no error: Echo returns its input          *)
(* unchanged when its delay in samples is >= len(w), and Reverb skips       *)
(* exactly the taps whose offset is >= len(w) while still adding every      *)
(* other tap.                                                               *)
C30_OffsetsPastTheEnd ==
    /\ (Returned("echo")
          /\ (req.echo_delay * sample_rate) \div 1000 >= Len(audio_data)) =>
            /\ processed_audio = audio_data
            /\ raised = {}
    /\ (Returned("reverb")
          /\ TapsBeforeEnd(audio_data, sample_rate, req.reverb_room_size) # 0..5) =>
            /\ processed_audio =
                  [n \in 1..Len(audio_data) |->
                      audio_data[n]
                      + SumOfTaps(audio_data, sample_rate, req.reverb_room_size,
                                  req.reverb_damping, n,
                                  TapsBeforeEnd(audio_data, sample_rate, req.reverb_room_size))]
            /\ raised = {}

(* C22: Compress leaves every sample with |x| <= threshold unchanged and    *)
(* maps every sample with |x| > threshold to                                *)
(* sign(x) * (threshold + (|x| - threshold) / ratio); hence for ratio >= 1  *)
(* the output keeps the sign of the input, never exceeds the input in       *)
(* magnitude, and is never below the threshold in magnitude for a sample    *)
(* that was above it.                                                       *)
C22_CompressionCurve ==
    Returned("compression") =>
        /\ Len(processed_audio) = Len(audio_data)
        /\ raised = {}
        /\ \A n \in 1..Len(audio_data) :
             LET x == audio_data[n]
                 y == processed_audio[n]
                 over == RoundDiv((Abs(x) - req.threshold) * 1000, req.ratio)
             IN  /\ Abs(x) <= req.threshold => y = x
                 /\ Abs(x) > req.threshold =>
                      /\ y = (IF x > 0 THEN 1 ELSE -1) * (req.threshold + over)
                      /\ req.ratio >= 1000 =>
                           /\ (x > 0) = (y > 0)
                           /\ Abs(y) <= Abs(x)
                           /\ Abs(y) >= req.threshold

C22_Witness ==
    /\ Returned("compression")
    /\ req.threshold = 500
    /\ req.ratio = 4000
    /\ audio_data = <<-1000, -300, 600>>
    /\ processed_audio = <<-625, -300, 525>>

----------------------------------------------------------------------------
(* The preset catalog, and the requests a client makes from its entries *)

\* Faulty variant: helium a semitone lower (C12 tells it from Presets)
PresetsFlatHelium ==
    [chipmunk     |-> [pitch_shift |-> 8000, speed_change |-> 1300, normalize |-> TRUE],
     darth_vader  |-> [pitch_shift |-> -6000, speed_change |-> 900, reverb |-> TRUE,
                       reverb_room_size |-> 800, reverb_damping |-> 300, normalize |-> TRUE],
     robot        |-> [robot_voice |-> TRUE, robot_intensity |-> 700, pitch_shift |-> -2000,
                       normalize |-> TRUE],
     echo_chamber |-> [echo |-> TRUE, echo_delay |-> 400, echo_decay |-> 600, reverb |-> TRUE,
                       reverb_room_size |-> 900, normalize |-> TRUE],
     slow_motion  |-> [speed_change |-> 700, pitch_shift |-> -3000, normalize |-> TRUE],
     helium       |-> [pitch_shift |-> 5000, speed_change |-> 1100, normalize |-> TRUE]]

\* Faulty variant: echo_chamber with a decay above the validator's 0.9 (C13
\* tells it from Presets)
PresetsLoudEcho ==
    [chipmunk     |-> [pitch_shift |-> 8000, speed_change |-> 1300, normalize |-> TRUE],
     darth_vader  |-> [pitch_shift |-> -6000, speed_change |-> 900, reverb |-> TRUE,
                       reverb_room_size |-> 800, reverb_damping |-> 300, normalize |-> TRUE],
     robot        |-> [robot_voice |-> TRUE, robot_intensity |-> 700, pitch_shift |-> -2000,
                       normalize |-> TRUE],
     echo_chamber |-> [echo |-> TRUE, echo_delay |-> 400, echo_decay |-> 950, reverb |-> TRUE,
                       reverb_room_size |-> 900, normalize |-> TRUE],
     slow_motion  |-> [speed_change |-> 700, pitch_shift |-> -3000, normalize |-> TRUE],
     helium       |-> [pitch_shift |-> 6000, speed_change |-> 1100, normalize |-> TRUE]]

\* the "effects" of each entry of get_effect_presets (its "name" and
\* "description" strings are left out)
Presets ==
    [chipmunk     |-> [pitch_shift |-> 8000, speed_change |-> 1300, normalize |-> TRUE],
     darth_vader  |-> [pitch_shift |-> -6000, speed_change |-> 900, reverb |-> TRUE,
                       reverb_room_size |-> 800, reverb_damping |-> 300, normalize |-> TRUE],
     robot        |-> [robot_voice |-> TRUE, robot_intensity |-> 700, pitch_shift |-> -2000,
                       normalize |-> TRUE],
     echo_chamber |-> [echo |-> TRUE, echo_delay |-> 400, echo_decay |-> 600, reverb |-> TRUE,
                       reverb_room_size |-> 900, normalize |-> TRUE],
     slow_motion  |-> [speed_change |-> 700, pitch_shift |-> -3000, normalize |-> TRUE],
     helium       |-> [pitch_shift |-> 6000, speed_change |-> 1100, normalize |-> TRUE]]

\* the form a client posts for a preset: the fields of its effects, and the
\* Form(...) default of every field it leaves out
Expand(effects) ==
    [f \in DOMAIN Defaults |-> IF f \in DOMAIN effects THEN effects[f] ELSE Defaults[f]]

\* GET /effect-presets
GetEffectPresets ==
    /\ pc = "idle"
    /\ req' = [NoRequest EXCEPT !.endpoint = "effect-presets"]
    /\ response' = [status |-> 200, detail |-> "", effects_applied |-> <<>>, body |-> Presets]
    /\ pc' = "done"
    /\ UNCHANGED <<files, audio_data, sample_rate, arrays, tts_state, processed_audio, log, raised>>

\* POST /apply or /preview with the fields of one preset
ReceivePreset ==
    /\ pc = "idle"
    /\ \E name \in DOMAIN Presets :
          \/ \E fmt \in {"wav", "mp3"} :
                req' = Request("apply", "voice.wav", fmt, 30000, Expand(Presets[name]))
          \/ req' = Request("preview", "voice.wav", "wav", 30000, Expand(Presets[name]))
    /\ pc' = "validate"
    /\ UNCHANGED <<files, audio_data, sample_rate, arrays, tts_state, processed_audio, log, raised, response>>

NextPreset ==
    \/ GetEffectPresets
    \/ ReceivePreset
    \/ CheckParameters
    \/ SaveUpload
    \/ PreviewTrim
    \/ LoadAudio
    \/ StagePitchShift
    \/ StageSpeedChange
    \/ StageRobotVoice
    \/ StageEcho
    \/ StageReverb
    \/ StageNormalize
    \/ SaveProcessedAudio
    \/ Respond
    \/ CleanupTempFiles

SpecPreset == Init /\ [][NextPreset]_vars

\* section 4.4, the catalog as the specification lists it
ListedPresets ==
    [chipmunk     |-> [pitch_shift |-> 8000, speed_change |-> 1300, normalize |-> TRUE],
     darth_vader  |-> [pitch_shift |-> -6000, speed_change |-> 900, reverb |-> TRUE,
                       reverb_room_size |-> 800, reverb_damping |-> 300, normalize |-> TRUE],
     robot        |-> [robot_voice |-> TRUE, robot_intensity |-> 700, pitch_shift |-> -2000,
                       normalize |-> TRUE],
     echo_chamber |-> [echo |-> TRUE, echo_delay |-> 400, echo_decay |-> 600, reverb |-> TRUE,
                       reverb_room_size |-> 900, normalize |-> TRUE],
     slow_motion  |-> [speed_change |-> 700, pitch_shift |-> -3000, normalize |-> TRUE],
     helium       |-> [pitch_shift |-> 6000, speed_change |-> 1100, normalize |-> TRUE]]

\* the stages an entry of the list names
ListedStages(name) == Stages \cap DOMAIN ListedPresets[name]

\* the request was made from the catalog's entry of this name
MadeFrom(name) == pc # "idle" /\ name \in DOMAIN Presets /\ EffectsDict(req) = Expand(Presets[name])

(* C12: the catalog maps each of the six names to exactly the listed        *)
(* configuration, and a call made with a preset runs the stages its entry   *)
(* lists, with the listed parameters, and no other stage.                   *)
C12_PresetCatalog ==
    /\ response.body # NoBody => response.body = ListedPresets
    /\ \A name \in DOMAIN ListedPresets :
          MadeFrom(name) =>
            /\ \A f \in DOMAIN ListedPresets[name] : req[f] = ListedPresets[name][f]
            /\ StagesOver => StagesRun = ListedStages(name)

C12_Witness ==
    /\ MadeFrom("echo_chamber")
    /\ pc = "done"
    /\ response.status = 200
    /\ StagesRun = {"echo", "reverb", "normalize"}
    /\ raised = {}
    /\ Len(audio_data) >= 2

(* C13: every preset of the catalog, completed with the endpoint's defaults *)
(* for the fields it leaves out, has each field inside its valid range and  *)
(* passes the validator: a request made from it is never answered 400.      *)
C13_PresetsAccepted ==
    \A name \in DOMAIN Presets :
        MadeFrom(name) =>
            /\ BadFields(req) = {}
            /\ Validate(req) = "ok"
            /\ response.status # 400

C13_Witness ==
    /\ MadeFrom("darth_vader")
    /\ pc = "save"
    /\ req.reverb_damping = 300
    /\ req.echo_delay = Defaults.echo_delay

----------------------------------------------------------------------------
(* Decoding: _load_audio of the effects service and load_audio_safe of the  *)
(* Windows audio utilities, each called once on a media file                *)

MaxFrames == 2

MaxChannels == 3

\* 16-bit sample values of a file
PcmSamples == {-16384, 8192}

\* target_sr: 0 stands for None
TargetRates == {0, 10}

\* the integer sample x of a file as a float: x / 32768.0 for 16-bit samples
\* and x / 2147483648.0, computed as (x / 65536) / 32768, for the wider ones
ToFloat(x, width) ==
    IF width = 2 THEN RoundDiv(x * FP, 32768) ELSE RoundDiv((x \div 65536) * FP, 32768)

\* a media file: what each decoder makes of its bytes, and the frames in it
MediaFile(primary, secondary, width, sr, frames) ==
    [primary |-> primary, secondary |-> secondary, sample_width |-> width, sr |-> sr,
     channels |-> Len(frames[1]), frames |-> frames]

\* the exceptions of the two decoders
PrimaryError == "librosa: NoBackendError"
SecondaryError == "pydub: CouldntDecodeError"

Decoded(w, sr, attempts) ==
    [ok |-> TRUE, samples |-> w, sr |-> sr, attempts |-> attempts,
     error |-> [message |-> <<>>, context |-> <<>>]]

\* an exception: the parts of its message, and the chain of exceptions that
\* were being handled when it was raised (__context__)
Failed(message, context, attempts) ==
    [ok |-> FALSE, samples |-> <<>>, sr |-> 0, attempts |-> attempts,
     error |-> [message |-> message, context |-> context]]

RECURSIVE SumSeq(_)
SumSeq(q) == IF q = <<>> THEN 0 ELSE Head(q) + SumSeq(Tail(q))

\* get_array_of_samples: the frames' samples one after the other
RECURSIVE Interleaved(_)
Interleaved(frames) ==
    IF frames = <<>> THEN <<>> ELSE Head(frames) \o Interleaved(Tail(frames))

\* librosa.load(mono=True): floats, then the mean of the channels
LibrosaMono(f) ==
    [n \in 1..Len(f.frames) |->
        RoundDiv(SumSeq([c \in 1..f.channels |->
                            ToFloat(f.frames[n][c], f.sample_width)]),
                 f.channels)]

\* librosa.resample: int(ceil(n * target_sr / orig_sr)) samples
ResampleLen(n, orig_sr, target_sr) == (n * target_sr + orig_sr - 1) \div orig_sr

\* librosa.load(path, sr=target_sr): y stands for the resampled signal
librosa_load(f, target_sr, y) ==
    IF target_sr # 0 /\ target_sr # f.sr
      THEN Decoded(y, target_sr, <<"librosa">>)
    ELSE Decoded(LibrosaMono(f), f.sr, <<"librosa">>)

\* AudioSegment.set_channels(1): the integer mean of each frame
PydubMono(f) == [n \in 1..Len(f.frames) |-> SumSeq(f.frames[n]) \div f.channels]

\* VoiceEffectsProcessor._load_audio
load_audio(f) ==
    IF f.primary THEN librosa_load(f, 0, <<>>)
    ELSE IF f.secondary
      THEN Decoded([n \in 1..Len(f.frames) |->
                       ToFloat(PydubMono(f)[n], IF f.sample_width = 2 THEN 2 ELSE 4)],
                   f.sr, <<"librosa", "pydub">>)
    ELSE Failed(<<SecondaryError>>, <<PrimaryError>>, <<"librosa", "pydub">>)

\* the fallback of load_audio_safe before it resamples: the samples scaled by
\* their width, and averaged only when the file has two channels
PydubSafe(f) ==
    LET ints  == Interleaved(f.frames)
        audio == [n \in 1..Len(ints) |->
                     IF f.sample_width \in {2, 4} THEN ToFloat(ints[n], f.sample_width)
                     ELSE ints[n] * FP]
    IN  IF f.channels = 2
          THEN [n \in 1..Len(f.frames) |-> RoundDiv(audio[2 * n - 1] + audio[2 * n], 2)]
        ELSE audio

\* the length of what load_audio_safe decodes, before any resampling
NativeLen(f) == IF f.primary THEN Len(f.frames) ELSE Len(PydubSafe(f))

\* WindowsAudioProcessor.load_audio_safe
load_audio_safe(f, target_sr, y) ==
    IF f.primary THEN librosa_load(f, target_sr, y)
    ELSE IF f.secondary
      THEN IF target_sr # 0 /\ f.sr # target_sr
             THEN Decoded(y, target_sr, <<"librosa", "pydub">>)
           ELSE Decoded(PydubSafe(f), f.sr, <<"librosa", "pydub">>)
    ELSE Failed(<<"Cannot load audio file: ", SecondaryError>>,
                <<SecondaryError, PrimaryError>>, <<"librosa", "pydub">>)

NoCall == [function |-> "none", target_sr |-> 0]

InitDecode ==
    /\ pc = "decode"
    /\ req = NoCall
    /\ \E primary \in BOOLEAN, secondary \in BOOLEAN, width \in {2, 4}, sr \in SampleRates,
          channels \in 1..MaxChannels, n \in 1..MaxFrames :
          \E frames \in SeqsOfLen(SeqsOfLen(PcmSamples, channels), n) :
             files = [input |-> MediaFile(primary, secondary, width, sr,
                                  [i \in 1..n |-> [c \in 1..channels |->
                                      frames[i][c] * (IF width = 2 THEN 1 ELSE 4096)]])]
    /\ audio_data = <<>>
    /\ sample_rate = 0
    /\ processed_audio = <<>>
    /\ log = <<>>
    /\ raised = {}
    /\ response = NoResponse
    /\ arrays = <<>>
    /\ TtsIdle

\* one call of a decoder on the file: the waveform and rate it returns, or
\* the exception it raises; log keeps the decoders tried, in order
Decode(call, result) ==
    /\ pc = "decode"
    /\ pc' = IF result.ok THEN "decoded" ELSE "decode_failed"
    /\ req' = call
    /\ audio_data' = result.samples
    /\ sample_rate' = result.sr
    /\ log' = result.attempts
    /\ raised' = IF result.ok THEN {} ELSE {result.error}
    /\ UNCHANGED <<files, processed_audio, response, arrays, tts_state>>

CallLoadAudio ==
    Decode([function |-> "load_audio", target_sr |-> 0], load_audio(files.input))

CallLoadAudioSafe ==
    \E target_sr \in TargetRates :
        LET f == files.input
            n == IF target_sr # 0 /\ target_sr # f.sr
                   THEN ResampleLen(NativeLen(f), f.sr, target_sr) ELSE 0
        IN  \E y \in SeqsOfLen(ExtSamples, n) :
               Decode([function |-> "load_audio_safe", target_sr |-> target_sr],
                      load_audio_safe(f, target_sr, y))

NextDecode == CallLoadAudio \/ CallLoadAudioSafe

SpecDecode == InitDecode /\ [][NextDecode]_vars

\* the underlying causes a raised error names in its message
CausesCarried(error) == Range(error.message) \cap {PrimaryError, SecondaryError}

(* C14: decode tries the primary decoder first and the secondary one only   *)
(* when the primary fails; when both fail the call raises an error that     *)
(* carries both the primary decoder's error and the secondary decoder's,    *)
(* and returns no waveform.                                                 *)
C14_DecodeErrorCarriesBothCauses ==
    pc \in {"decoded", "decode_failed"} =>
        /\ log[1] = "librosa"
        /\ Len(log) = IF files.input.primary THEN 1 ELSE 2
        /\ pc = "decode_failed" <=> (~files.input.primary /\ ~files.input.secondary)
        /\ pc = "decode_failed" =>
              /\ audio_data = <<>>
              /\ \A e \in raised : CausesCarried(e) = {PrimaryError, SecondaryError}

\* the mean of the channels of frame n, as a float
FrameMean(f, n) ==
    RoundDiv(SumSeq([c \in 1..f.channels |-> ToFloat(f.frames[n][c], f.sample_width)]),
             f.channels)

(* C15: every successful decode, through the primary or the fallback        *)
(* decoder and for any number of input channels, returns one channel, each  *)
(* sample the average of its frame's channels, at the file's own sample     *)
(* rate; it resamples only when a target rate was asked for.                *)
C15_DecodeMonoNativeRate ==
    pc = "decoded" =>
        LET f == files.input
            resampled == req.target_sr # 0 /\ req.target_sr # f.sr
        IN  /\ sample_rate = IF resampled THEN req.target_sr ELSE f.sr
            /\ Len(audio_data) = IF resampled
                                   THEN ResampleLen(Len(f.frames), f.sr, req.target_sr)
                                 ELSE Len(f.frames)
            /\ ~resampled =>
                  \A n \in 1..Len(f.frames) : Abs(audio_data[n] - FrameMean(f, n)) <= 1

----------------------------------------------------------------------------
(* Two calls of apply_effects on the one voice_effects_processor, their     *)
(* steps interleaved; every variable but the file system holds one value    *)
(* per call                                                                 *)

Invocations == {1, 2}

\* voice_effect_{np.random.randint(10000, 99999)}.wav: two of the names
OutputNames == {"voice_effect_10000.wav", "voice_effect_10001.wav"}

InputName(i) == IF i = 1 THEN "input_1.wav" ELSE "input_2.wav"

\* the configurations of the two calls
ConcurrentEffects ==
    {[Defaults EXCEPT !.echo = e, !.echo_delay = 100, !.reverb = r, !.reverb_room_size = 1000,
                      !.normalize = n] : e \in BOOLEAN, r \in BOOLEAN, n \in BOOLEAN}

\* the primitive each if statement of apply_effects calls
Primitive(s, audio, sr, effects, fault, y) ==
    CASE s = "pitch_shift"  -> apply_pitch_shift(audio, fault, y)
      [] s = "speed_change" -> apply_speed_change(audio, fault, y)
      [] s = "robot_voice"  -> apply_robot_voice(audio, sr, effects.robot_intensity)
      [] s = "echo"         -> apply_echo(audio, sr, effects.echo_delay, effects.echo_decay)
      [] s = "reverb"       -> apply_reverb(audio, sr, effects.reverb_room_size,
                                            effects.reverb_damping)
      [] s = "normalize"    -> normalize_audio(audio)

InitConcurrent ==
    /\ pc = [i \in Invocations |-> "load"]
    /\ req \in [Invocations -> ConcurrentEffects]
    /\ \E w \in [Invocations -> SeqsOfLen(Samples, MaxLen)], sr \in SampleRates :
          files = [name \in {InputName(i) : i \in Invocations} |->
                      Audio(w[CHOOSE i \in Invocations : InputName(i) = name], sr)]
    /\ audio_data = [i \in Invocations |-> <<>>]
    /\ sample_rate = [i \in Invocations |-> 0]
    /\ processed_audio = [i \in Invocations |-> <<>>]
    /\ log = [i \in Invocations |-> <<>>]
    /\ raised = [i \in Invocations |-> {}]
    /\ response = [i \in Invocations |-> ""]
    /\ arrays = <<>>
    /\ TtsIdle

\* _load_audio and audio_data.copy() of call i
ConcurrentLoad(i) ==
    /\ pc[i] = "load"
    /\ audio_data' = [audio_data EXCEPT ![i] = files[InputName(i)].samples]
    /\ sample_rate' = [sample_rate EXCEPT ![i] = files[InputName(i)].sr]
    /\ processed_audio' = [processed_audio EXCEPT ![i] = files[InputName(i)].samples]
    /\ log' = [log EXCEPT ![i] = <<"decode">>]
    /\ pc' = [pc EXCEPT ![i] = StageOrder[1]]
    /\ UNCHANGED <<req, files, raised, response, arrays, tts_state>>

\* one if statement of apply_effects in call i
ConcurrentStage(i) ==
    /\ pc[i] \in Range(StageOrder)
    /\ pc' = [pc EXCEPT ![i] = AfterStage(pc[i])]
    /\ IF StageEnabled(pc[i], req[i])
         THEN \E fault \in BOOLEAN,
                 y \in SeqsOfLen(ExtSamples,
                          IF pc[i] = "pitch_shift" THEN Len(processed_audio[i])
                          ELSE IF pc[i] = "speed_change"
                            THEN StretchLen(Len(processed_audio[i]), req[i].speed_change)
                          ELSE 0) :
                 LET result == Primitive(pc[i], processed_audio[i], sample_rate[i], req[i],
                                         fault, y)
                 IN  /\ processed_audio' = [processed_audio EXCEPT ![i] = result.out]
                     /\ raised' = [raised EXCEPT ![i] = IF result.raised THEN @ \cup {pc[i]}
                                                        ELSE @]
                     /\ log' = [log EXCEPT ![i] = Append(@, pc[i])]
         ELSE UNCHANGED <<processed_audio, raised, log>>
    /\ UNCHANGED <<req, files, audio_data, sample_rate, arrays, tts_state, response>>

\* _save_processed_audio of call i: a name drawn by np.random.randint, the
\* file written under it, and the path returned
ConcurrentSave(i) ==
    /\ pc[i] = "encode"
    /\ \E name \in OutputNames :
          /\ files' = WriteFile(files, name,
                                Encoded("wav", processed_audio[i], sample_rate[i], FALSE))
          /\ response' = [response EXCEPT ![i] = name]
    /\ log' = [log EXCEPT ![i] = Append(@, "encode")]
    /\ pc' = [pc EXCEPT ![i] = "returned"]
    /\ UNCHANGED <<req, audio_data, sample_rate, arrays, tts_state, processed_audio, raised>>

NextConcurrent ==
    \E i \in Invocations : ConcurrentLoad(i) \/ ConcurrentStage(i) \/ ConcurrentSave(i)

SpecConcurrent == InitConcurrent /\ [][NextConcurrent]_vars

\* what the stages up to the k-th make of a waveform when nothing else runs
\* (for configurations without pitch shift and speed change)
RECURSIVE RunStages(_, _, _, _)
RunStages(audio, sr, effects, k) ==
    IF k = 0 THEN audio
    ELSE LET before == RunStages(audio, sr, effects, k - 1)
         IN  IF StageEnabled(StageOrder[k], effects)
               THEN Primitive(StageOrder[k], before, sr, effects, FALSE, before).out
             ELSE before

\* the output file of call i when it runs alone
RunAlone(i) ==
    LET in == files[InputName(i)]
    IN  Encoded("wav", RunStages(in.samples, in.sr, req[i], Len(StageOrder)), in.sr, FALSE)

(* C17: the pipeline and its primitives keep no state between calls, so two *)
(* calls on independent inputs whose steps interleave each produce exactly  *)
(* the result they produce alone: a call that has not returned holds the    *)
(* waveform of its own stages, and the file at the path a call returned is  *)
(* the encoding of its own result.                                          *)
C17_ConcurrentCallsIndependent ==
    \A i \in Invocations :
        /\ pc[i] = "encode" =>
              processed_audio[i] = RunStages(audio_data[i], sample_rate[i], req[i],
                                             Len(StageOrder))
        /\ pc[i] = "returned" => files[response[i]] = RunAlone(i)

(* C23: two overlapping pipeline invocations always write their results to *)
(* distinct output files: the path one call chose is never chosen by        *)
(* another call while the first call's output file still exists.            *)
C23_DistinctOutputPaths ==
    \A i, j \in Invocations :
        (i # j /\ pc[i] = "returned" /\ pc[j] = "returned" /\ response[i] \in DOMAIN files)
            => response[i] # response[j]

----------------------------------------------------------------------------
(* The arrays behind the waveforms: which array each primitive writes to    *)
(* and which it returns. Here audio_data and processed_audio hold the index *)
(* in arrays of the object the name is bound to.                            *)

\* a primitive returned an array it made: audio * ..., audio + ..., np.where
Fresh(h, out) == [arrays |-> Append(h, out), returned |-> Len(h) + 1, raised |-> FALSE]

\* a primitive returned the array it was given: "return audio"
Same(h, a, r) == [arrays |-> h, returned |-> a, raised |-> r]

\* librosa.effects.pitch_shift and time_stretch return new arrays
pitch_shift_arrays(h, a, fault, y) ==
    LET res == apply_pitch_shift(h[a], fault, y)
    IN  IF res.raised THEN Same(h, a, TRUE) ELSE Fresh(h, res.out)

speed_change_arrays(h, a, fault, y) ==
    LET res == apply_speed_change(h[a], fault, y)
    IN  IF res.raised THEN Same(h, a, TRUE) ELSE Fresh(h, res.out)

\* robot_audio = audio * (1 + intensity * carrier), then np.round(...) / max_val
robot_voice_arrays(h, a, sr, intensity) ==
    LET res == apply_robot_voice(h[a], sr, intensity)
    IN  IF res.raised THEN Same(h, a, TRUE) ELSE Fresh(h, res.out)

\* the slice is assigned into delayed_audio = np.zeros_like(audio), and
\* echo_audio = audio + delayed_audio is a third array
echo_arrays(h, a, sr, delay, decay) ==
    LET res == apply_echo(h[a], sr, delay, decay)
    IN  IF res.raised THEN Same(Append(h, [n \in 1..Len(h[a]) |-> 0]), a, TRUE)
        ELSE Fresh(Append(h, Delayed(h[a], DelaySamples(delay, sr), decay)), res.out)

\* Faulty variant: reverb_audio = audio, without the copy, so that += writes
\* into the array the stage was given (C18 tells it from reverb_arrays)
reverb_arrays_no_copy(h, a, sr, room_size, damping) ==
    LET res == apply_reverb(h[a], sr, room_size, damping)
    IN  IF res.raised THEN Same(h, a, TRUE)
        ELSE Same([h EXCEPT ![a] = res.out], a, FALSE)

\* reverb_audio = audio.copy(); every += writes into the copy, which an
\* exception leaves behind half-written while audio is returned
reverb_arrays(h, a, sr, room_size, damping) ==
    LET res == apply_reverb(h[a], sr, room_size, damping)
    IN  IF res.raised THEN Same(Append(h, h[a]), a, TRUE)
        ELSE Fresh(h, res.out)

\* audio / max_val * 0.95 is a new array; a silent input is returned itself
normalize_arrays(h, a) ==
    LET res == normalize_audio(h[a])
    IN  IF res.raised \/ Peak(h[a]) = 0 THEN Same(h, a, res.raised) ELSE Fresh(h, res.out)

\* compressed = np.where(...)
compression_arrays(h, a) ==
    Fresh(h, apply_compression(h[a], CompressionThreshold, CompressionRatio).out)

\* the call each if statement of apply_effects makes
PrimitiveOnArrays(s, h, a, sr, effects, fault, y) ==
    CASE s = "pitch_shift"  -> pitch_shift_arrays(h, a, fault, y)
      [] s = "speed_change" -> speed_change_arrays(h, a, fault, y)
      [] s = "robot_voice"  -> robot_voice_arrays(h, a, sr, effects.robot_intensity)
      [] s = "echo"         -> echo_arrays(h, a, sr, effects.echo_delay, effects.echo_decay)
      [] s = "reverb"       -> reverb_arrays(h, a, sr, effects.reverb_room_size,
                                             effects.reverb_damping)
      [] s = "normalize"    -> normalize_arrays(h, a)

\* the configurations of the calls followed array by array
ArrayEffects ==
    {[Defaults EXCEPT !.pitch_shift = p, !.robot_voice = rb, !.robot_intensity = 700,
                      !.echo = e, !.echo_delay = 100, !.reverb = rv,
                      !.reverb_room_size = 1000, !.normalize = n] :
        p \in {0, 2000}, rb \in BOOLEAN, e \in BOOLEAN, rv \in BOOLEAN, n \in BOOLEAN}

InitArrays ==
    /\ pc = "load"
    /\ req \in ArrayEffects
    /\ \E w \in PrimWaveforms, sr \in SampleRates : files = [input |-> Audio(w, sr)]
    /\ audio_data = 0
    /\ sample_rate = 0
    /\ processed_audio = 0
    /\ log = <<>>
    /\ raised = {}
    /\ response = NoResponse
    /\ arrays = <<>>
    /\ TtsIdle

\* apply_effects: audio_data is the array _load_audio returns and
\* processed_audio its copy; _apply_compression is given the array itself
ArraysLoad ==
    /\ pc = "load"
    /\ \E caller \in {"apply_effects", "enhance_audio_quality"} :
          /\ arrays' = IF caller = "apply_effects"
                         THEN <<files.input.samples, files.input.samples>>
                       ELSE <<files.input.samples>>
          /\ processed_audio' = IF caller = "apply_effects" THEN 2 ELSE 1
          /\ pc' = IF caller = "apply_effects" THEN StageOrder[1] ELSE "compress"
    /\ audio_data' = 1
    /\ sample_rate' = files.input.sr
    /\ log' = <<"decode">>
    /\ UNCHANGED <<req, files, raised, response, tts_state>>

\* what a call leaves: the arrays, the array now bound to processed_audio
Returns(s, next, r) ==
    /\ arrays' = r.arrays
    /\ processed_audio' = r.returned
    /\ raised' = IF r.raised THEN raised \cup {s} ELSE raised
    /\ log' = Append(log, s)
    /\ pc' = next
    /\ UNCHANGED <<req, files, audio_data, sample_rate, response, tts_state>>

\* one if statement of apply_effects
ArraysStage ==
    /\ pc \in Range(StageOrder)
    /\ IF StageEnabled(pc, req)
         THEN \E fault \in BOOLEAN,
                 y \in SeqsOfLen(ExtSamples,
                          IF pc = "pitch_shift" THEN Len(arrays[processed_audio])
                          ELSE IF pc = "speed_change"
                            THEN StretchLen(Len(arrays[processed_audio]), req.speed_change)
                          ELSE 0) :
                 Returns(pc, AfterStage(pc),
                         PrimitiveOnArrays(pc, arrays, processed_audio, sample_rate, req,
                                           fault, y))
         ELSE /\ pc' = AfterStage(pc)
              /\ UNCHANGED <<req, files, audio_data, sample_rate, processed_audio, log, raised,
                             response, arrays, tts_state>>

\* enhanced_audio = self._apply_compression(enhanced_audio)
ArraysCompress ==
    /\ pc = "compress"
    /\ Returns("compress", "encode", compression_arrays(arrays, processed_audio))

NextArrays == ArraysLoad \/ ArraysStage \/ ArraysCompress

SpecArrays == InitArrays /\ [][NextArrays]_vars

(* C18: no stage writes into the waveform it is given: whenever robot,      *)
(* echo, reverb, normalize or compress returns, normally or after an        *)
(* exception, the array passed to it holds the samples it held at the call, *)
(* and after the whole pipeline call the decoded array holds what was       *)
(* decoded.                                                                 *)
C18_NoInPlaceMutation ==
    /\ [][(pc \in {"robot_voice", "echo", "reverb", "normalize", "compress"})
            => (arrays'[processed_audio] = arrays[processed_audio])]_vars
    /\ [](pc \notin {"load"} => arrays[audio_data] = files.input.samples)

C18_Witness ==
    /\ pc = "encode"
    /\ {"robot_voice", "echo", "reverb", "normalize"} \subseteq StagesRun
    /\ "reverb" \notin raised
    /\ Len(arrays[audio_data]) = 3
    /\ arrays[processed_audio] # arrays[audio_data]
    /\ processed_audio > 2

----------------------------------------------------------------------------
(* RealTTSModel.tts_to_file: the caller, the speech threads it starts and   *)
(* the output files. Here pc holds the caller's position and the position   *)
(* of the thread of every call made so far, req the arguments of the calls, *)
(* completed and error_occurred the two Events of every call.               *)

MaxCalls == 2

Texts == {"hello", "good morning"}

FilePaths == {"outputs/tts_1.wav", "outputs/tts_2.wav"}

\* the variables of the voice-effects pipeline, unused from here on
effects_state == <<audio_data, sample_rate, processed_audio, arrays>>

InitSpeech ==
    /\ pc = [caller |-> "idle", thread |-> <<>>]
    /\ req = <<>>
    /\ files = NoFiles
    /\ audio_data = <<>>
    /\ sample_rate = 0
    /\ processed_audio = <<>>
    /\ log = <<>>
    /\ raised = {}
    /\ response = NoResponse
    /\ arrays = <<>>
    /\ TtsIdle

\* the call in progress, the last one made
Current == Len(req)

\* tts_to_file up to thread.start(): the two Events, the daemon thread
StartSpeechThread ==
    /\ pc.caller = "idle"
    /\ Len(req) < MaxCalls
    /\ \E text \in Texts, file_path \in FilePaths :
          req' = Append(req, [text |-> text, file_path |-> file_path])
    /\ completed' = Append(completed, FALSE)
    /\ error_occurred' = Append(error_occurred, FALSE)
    /\ pc' = [caller |-> "wait", thread |-> Append(pc.thread, "running")]
    /\ UNCHANGED <<files, log, raised, response, effects_state, model_manager,
                   speaker_embeddings, uploaded_audios>>

\* generate_speech of call c: engine.save_to_file and engine.runAndWait
GenerateSpeech(c) ==
    /\ pc.thread[c] = "running"
    /\ files' = WriteFile(files, req[c].file_path,
                          [writer |-> "pyttsx3", text |-> req[c].text, call |-> c])
    /\ pc' = [pc EXCEPT !.thread[c] = "saved"]
    /\ UNCHANGED <<req, log, raised, response, effects_state, tts_state>>

\* generate_speech of call c: completed.set()
SetCompleted(c) ==
    /\ pc.thread[c] = "saved"
    /\ completed' = [completed EXCEPT ![c] = TRUE]
    /\ pc' = [pc EXCEPT !.thread[c] = "done"]
    /\ UNCHANGED <<req, files, log, raised, response, effects_state, model_manager,
                   speaker_embeddings, uploaded_audios, error_occurred>>

\* generate_speech of call c: the engine raised, error_occurred.set()
SetErrorOccurred(c) ==
    /\ pc.thread[c] = "running"
    /\ error_occurred' = [error_occurred EXCEPT ![c] = TRUE]
    /\ pc' = [pc EXCEPT !.thread[c] = "failed"]
    /\ UNCHANGED <<req, files, log, raised, response, effects_state, model_manager,
                   speaker_embeddings, uploaded_audios, completed>>

\* completed.wait(timeout=10.0) returned True: return
WaitCompleted ==
    /\ pc.caller = "wait"
    /\ completed[Current]
    /\ log' = Append(log, [call |-> Current, by |-> "pyttsx3"])
    /\ pc' = [pc EXCEPT !.caller = "idle"]
    /\ UNCHANGED <<req, files, raised, response, effects_state, tts_state>>

\* completed.wait(timeout=10.0) returned False after ten seconds: raise, and
\* the except branch is entered
WaitTimedOut ==
    /\ pc.caller = "wait"
    /\ ~completed[Current]
    /\ raised' = raised \cup
                   {[call |-> Current,
                     message |-> IF error_occurred[Current] THEN "pyttsx3 generation failed"
                                 ELSE "pyttsx3 timeout after 10 seconds"]}
    /\ pc' = [pc EXCEPT !.caller = "fallback"]
    /\ UNCHANGED <<req, files, log, response, effects_state, tts_state>>

\* except Exception: MockTTSModel().tts_to_file(text, file_path), then return
MockTtsToFile ==
    /\ pc.caller = "fallback"
    /\ files' = WriteFile(files, req[Current].file_path,
                          [writer |-> "mock", text |-> req[Current].text, call |-> Current])
    /\ log' = Append(log, [call |-> Current, by |-> "mock"])
    /\ pc' = [pc EXCEPT !.caller = "idle"]
    /\ UNCHANGED <<req, raised, response, effects_state, tts_state>>

NextSpeech ==
    \/ StartSpeechThread
    \/ WaitCompleted
    \/ WaitTimedOut
    \/ MockTtsToFile
    \/ \E c \in 1..MaxCalls :
          c <= Len(req) /\ (GenerateSpeech(c) \/ SetCompleted(c) \/ SetErrorOccurred(c))

SpecSpeech == InitSpeech /\ [][NextSpeech]_vars

\* call c fell back to the mock model and has returned
FellBack(c) == \E i \in 1..Len(log) : log[i] = [call |-> c, by |-> "mock"]

(* C26: when the speech thread times out (or fails) and tts_to_file falls   *)
(* back to the mock model, the mock is the only writer of the output file   *)
(* from then on: the abandoned thread no longer writes to file_path, so the *)
(* file present when tts_to_file returns is never overwritten by it.        *)
C26_MockIsLastWriter ==
    [][\A c \in 1..Len(req) :
          FellBack(c) =>
              /\ ~(pc.thread[c] = "running" /\ pc'.thread[c] = "saved")
              /\ (files[req[c].file_path].call = c =>
                     files'[req[c].file_path] = files[req[c].file_path])]_vars

----------------------------------------------------------------------------
(* ModelManager: models, model_status and loading_locks under the calls the *)
(* application's tasks make. No coroutine of the class reaches a point      *)
(* where it is suspended (the loaders await nothing, and a lock is never    *)
(* held across a suspension, so acquiring it never waits): the event loop   *)
(* runs every call to its end before another task's call starts. Here log   *)
(* holds the calls made, in order, with what each returned. get_tts_model   *)
(* and get_voice_encoder are called by the request handlers' tasks, the     *)
(* other operations by the application (startup, shutdown, maintenance).    *)

MaxOps == 3

\* the tasks of two requests in flight, and the application itself
Tasks == {1, 2}

Application == 0

ModelNames == {"tts", "voice_encoder", "wav2lip", "voice_conversion"}

\* Python's None, as a value that compares with the instances
None == [class |-> "NoneType"]

\* d[k] = v and del d[k] on a dict
SetItem(d, k, v) == [x \in DOMAIN d \cup {k} |-> IF x = k THEN v ELSE d[x]]

DelItem(d, k) == [x \in DOMAIN d \ {k} |-> d[x]]

\* what a loader returns or raises, the manager it leaves, and whether its
\* body ran past the "already loaded" test
Loaded(mm, value, exc, ran) == [mm |-> mm, value |-> value, raised |-> exc, ran |-> ran]

\* self.models[model_name] = instance; self.model_status[model_name] = True
Store(mm, name, class, k) ==
    LET instance == [class |-> class, made_in_call |-> k]
    IN  Loaded([mm EXCEPT !.models = SetItem(@, name, instance),
                          !.model_status = SetItem(@, name, TRUE)],
               instance, FALSE, TRUE)

\* except Exception: self.model_status[model_name] = False; return None
LoadFailed(mm, name) ==
    Loaded([mm EXCEPT !.model_status = SetItem(@, name, FALSE)], None, FALSE, TRUE)

\* what the imports and constructors of _load_tts_model can do: the TTS
\* library loads; it raises something other than ImportError; it is absent
\* and pyttsx3 loads; both are absent; TTS is absent and RealTTSModel()
\* raises something other than ImportError
TtsOutcomes == {"TTS", "load_error", "RealTTSModel", "MockTTSModel", "init_error"}

EncoderOutcomes == {"VoiceEncoder", "load_error"}

\* an exception raised inside the "except ImportError:" branch is handled by
\* the inner "except ImportError" only: any other leaves the function
load_tts_model(mm, outcome, k) ==
    IF "tts" \in DOMAIN mm.models THEN Loaded(mm, mm.models["tts"], FALSE, FALSE)
    ELSE IF outcome = "load_error" THEN LoadFailed(mm, "tts")
    ELSE IF outcome = "init_error" THEN Loaded(mm, None, TRUE, TRUE)
    ELSE Store(mm, "tts", outcome, k)

load_voice_encoder(mm, outcome, k) ==
    IF "voice_encoder" \in DOMAIN mm.models
      THEN Loaded(mm, mm.models["voice_encoder"], FALSE, FALSE)
    ELSE IF outcome = "load_error" THEN LoadFailed(mm, "voice_encoder")
    ELSE Store(mm, "voice_encoder", outcome, k)

load_wav2lip_model(mm, k) ==
    IF "wav2lip" \in DOMAIN mm.models THEN Loaded(mm, mm.models["wav2lip"], FALSE, FALSE)
    ELSE Store(mm, "wav2lip", "wav2lip_config", k)

load_voice_conversion_model(mm, k) ==
    IF "voice_conversion" \in DOMAIN mm.models
      THEN Loaded(mm, mm.models["voice_conversion"], FALSE, FALSE)
    ELSE Store(mm, "voice_conversion", "vc_config", k)

\* get_tts_model and get_voice_encoder: the lock made on first use, the
\* second test under the lock, the loader, and self.models.get(model_name)
get_model(mm, name, loaded_by) ==
    IF name \in DOMAIN mm.models THEN Loaded(mm, mm.models[name], FALSE, FALSE)
    ELSE LET r == loaded_by
         IN  IF r.raised THEN r
             ELSE Loaded(r.mm, IF name \in DOMAIN r.mm.models THEN r.mm.models[name] ELSE None,
                         FALSE, r.ran)

WithLock(mm, name) == [mm EXCEPT !.loading_locks = @ \cup {name}]

get_tts_model(mm, outcome, k) ==
    get_model(mm, "tts", load_tts_model(WithLock(mm, "tts"), outcome, k))

get_voice_encoder(mm, outcome, k) ==
    get_model(mm, "voice_encoder",
              load_voice_encoder(WithLock(mm, "voice_encoder"), outcome, k))

\* Faulty variant: the entry removed and its status left as it was (C28
\* tells it from unload_model)
unload_model_keeps_status(mm, name) ==
    IF name \in DOMAIN mm.models THEN [mm EXCEPT !.models = DelItem(@, name)] ELSE mm

unload_model(mm, name) ==
    IF name \in DOMAIN mm.models
      THEN [mm EXCEPT !.models = DelItem(@, name), !.model_status = SetItem(@, name, FALSE)]
    ELSE mm

\* the loader reload_model picks by name (none for any other name)
reload_model(mm, name, outcome, k) ==
    LET unloaded == unload_model(mm, name)
    IN  CASE name = "tts"              -> load_tts_model(unloaded, outcome, k)
          [] name = "voice_encoder"    -> load_voice_encoder(unloaded, outcome, k)
          [] name = "wav2lip"          -> load_wav2lip_model(unloaded, k)
          [] name = "voice_conversion" -> load_voice_conversion_model(unloaded, k)
          [] OTHER                     -> Loaded(unloaded, None, FALSE, FALSE)

\* for model_name in list(self.models.keys()): await self.unload_model(model_name)
RECURSIVE UnloadAll(_, _)
UnloadAll(mm, names) ==
    IF names = {} THEN mm
    ELSE LET name == CHOOSE n \in names : TRUE
         IN  UnloadAll(unload_model(mm, name), names \ {name})

cleanup(mm) == UnloadAll(mm, DOMAIN mm.models)

\* _load_tts_model, then _load_voice_encoder unless the first raised
initialize_models(mm, tts_outcome, encoder_outcome, k) ==
    LET first == load_tts_model(mm, tts_outcome, k)
        second == load_voice_encoder(first.mm, encoder_outcome, k)
    IN  IF first.raised THEN first
        ELSE Loaded(second.mm, None, FALSE, first.ran \/ second.ran)

InitManager ==
    /\ pc = "serving"
    /\ req = NoRequest
    /\ files = NoFiles
    /\ audio_data = <<>>
    /\ sample_rate = 0
    /\ processed_audio = <<>>
    /\ log = <<>>
    /\ raised = {}
    /\ response = NoResponse
    /\ arrays = <<>>
    /\ TtsIdle

\* one call by task t, run to its end: the manager it leaves and its entry
\* in log
ManagerCall(t, op, name, r) ==
    /\ Len(log) < MaxOps
    /\ model_manager' = r.mm
    /\ log' = Append(log, [task |-> t, op |-> op, name |-> name, value |-> r.value,
                           raised |-> r.raised, ran |-> r.ran])
    /\ UNCHANGED <<pc, req, files, raised, response, effects_state, speaker_embeddings,
                   uploaded_audios, completed, error_occurred>>

ThisCall == Len(log) + 1

InitializeModels ==
    \E tts_outcome \in TtsOutcomes, encoder_outcome \in EncoderOutcomes :
        ManagerCall(Application, "initialize_models", "",
                    initialize_models(model_manager, tts_outcome, encoder_outcome, ThisCall))

GetTtsModel(t) ==
    \E outcome \in TtsOutcomes :
        ManagerCall(t, "get_tts_model", "tts", get_tts_model(model_manager, outcome, ThisCall))

GetVoiceEncoder(t) ==
    \E outcome \in EncoderOutcomes :
        ManagerCall(t, "get_voice_encoder", "voice_encoder",
                    get_voice_encoder(model_manager, outcome, ThisCall))

LoadWav2lipModel ==
    ManagerCall(Application, "load_wav2lip_model", "wav2lip", load_wav2lip_model(model_manager, ThisCall))

LoadVoiceConversionModel ==
    ManagerCall(Application, "load_voice_conversion_model", "voice_conversion",
                load_voice_conversion_model(model_manager, ThisCall))

UnloadModel ==
    \E name \in ModelNames :
        ManagerCall(Application, "unload_model", name,
                    Loaded(unload_model(model_manager, name), None, FALSE, FALSE))

ReloadModel ==
    \E name \in ModelNames, outcome \in TtsOutcomes :
        /\ name = "tts" \/ outcome \in EncoderOutcomes
        /\ name \in {"tts", "voice_encoder"} \/ outcome = "load_error"
        /\ ManagerCall(Application, "reload_model", name,
                       reload_model(model_manager, name, outcome, ThisCall))

Cleanup ==
    ManagerCall(Application, "cleanup", "", Loaded(cleanup(model_manager), None, FALSE, FALSE))

NextManager ==
    \/ \E t \in Tasks : GetTtsModel(t) \/ GetVoiceEncoder(t)
    \/ InitializeModels
    \/ LoadWav2lipModel
    \/ LoadVoiceConversionModel
    \/ UnloadModel
    \/ ReloadModel
    \/ Cleanup

SpecManager == InitManager /\ [][NextManager]_vars

\* the step is a call: the entry it adds to log
IsCall == Len(log') = Len(log) + 1

LastCall == log'[Len(log')]

(* C27: when several tasks call get_tts_model (or get_voice_encoder) while  *)
(* the model is not loaded and loading succeeds, the loader body runs at    *)
(* most once and every caller receives the same instance; when loading      *)
(* fails, nothing is stored in models and each caller receives None.        *)
C27_LoadOnceOrNone ==
    [][(IsCall /\ LastCall.op \in {"get_tts_model", "get_voice_encoder"}) =>
          LET name == LastCall.name
              before == model_manager.models
              after == model_manager'.models
          IN  /\ name \in DOMAIN before =>
                    /\ ~LastCall.ran
                    /\ after = before
                    /\ ~LastCall.raised
                    /\ LastCall.value = before[name]
              /\ name \notin DOMAIN before =>
                    \/ /\ name \in DOMAIN after
                       /\ ~LastCall.raised
                       /\ LastCall.value = after[name]
                    \/ /\ after = before
                       /\ ~LastCall.raised
                       /\ LastCall.value = None]_vars

\* every name in models has model_status True
LoadedHaveStatusTrue ==
    \A name \in DOMAIN model_manager.models :
        /\ name \in DOMAIN model_manager.model_status
        /\ model_manager.model_status[name]

\* the name is absent from models and its model_status is False
Unloaded(mm, name) ==
    /\ name \notin DOMAIN mm.models
    /\ name \in DOMAIN mm.model_status
    /\ ~mm.model_status[name]

(* C28 as stated: every name in models has model_status True, and after     *)
(* unload_model(name) or cleanup the name is absent from models and its     *)
(* model_status is False.                                                   *)
C28_UnloadedStatusFalse ==
    /\ []LoadedHaveStatusTrue
    /\ [][IsCall =>
            /\ LastCall.op = "unload_model" => Unloaded(model_manager', LastCall.name)
            /\ LastCall.op = "cleanup" =>
                  /\ model_manager'.models = <<>>
                  /\ \A name \in DOMAIN model_manager.models :
                        Unloaded(model_manager', name)]_vars

(* C28: after any sequence of ModelManager operations every name in models  *)
(* has model_status True; after unload_model(name) of a name that was in    *)
(* models, and after cleanup for every name that was, the name is absent    *)
(* from models and its model_status is False; unload_model of a name not in *)
(* models changes nothing, so a name never loaded has no model_status.      *)
C28_StatusFollowsModels ==
    /\ []LoadedHaveStatusTrue
    /\ [][IsCall =>
            /\ LastCall.op = "unload_model" =>
                  IF LastCall.name \in DOMAIN model_manager.models
                    THEN Unloaded(model_manager', LastCall.name)
                    ELSE model_manager' = model_manager
            /\ LastCall.op = "cleanup" =>
                  /\ model_manager'.models = <<>>
                  /\ \A name \in DOMAIN model_manager.models :
                        Unloaded(model_manager', name)
                  /\ \A name \in ModelNames \ DOMAIN model_manager.models :
                        /\ (name \in DOMAIN model_manager'.model_status)
                             = (name \in DOMAIN model_manager.model_status)
                        /\ name \in DOMAIN model_manager.model_status =>
                             ~model_manager'.model_status[name]]_vars
    /\ [](log = <<>> => model_manager.model_status = <<>>)

C28_Witness ==
    /\ Len(log) = 3
    /\ log[1].op = "get_tts_model" /\ log[1].ran /\ log[1].value # None
    /\ log[2].op = "unload_model" /\ log[2].name = "tts"
    /\ log[3].op = "unload_model" /\ log[3].name = "wav2lip"
    /\ Unloaded(model_manager, "tts")
    /\ "wav2lip" \notin DOMAIN model_manager.model_status

----------------------------------------------------------------------------
(* The reference store of api/voice_clone.py: uploaded_audios and           *)
(* speaker_embeddings under uploads, deletions and clone requests. A        *)
(* handler is suspended only where it awaits the upload's bytes; here req   *)
(* holds the uploads that were given an id, pc the position of each, files  *)
(* the upload directory and response the last response sent.                *)

MaxUploads == 2

\* settings.MIN_REFERENCE_AUDIO and settings.MAX_AUDIO_LENGTH, in ms
MinReferenceAudio == 3000
MaxAudioLength == 300000

\* duration above which extract_speaker_embedding has a second at 16 kHz
MinEmbeddingAudio == 1000

\* a reference file: whether librosa reads it, its duration (ms), sample
\* rate, peak (FP units) and the duration (ms) of the samples above the
\* silence threshold 0.01
Reference(readable, duration, sr, peak, voiced) ==
    [content_type |-> "audio/wav", readable |-> readable, duration |-> duration, sr |-> sr,
     peak |-> peak, voiced |-> voiced]

ReferenceUploads ==
    { Reference(TRUE, 5000, 16000, 500, 3000),
      Reference(TRUE, 3000, 16000, 500, 3000),
      Reference(TRUE, 2000, 16000, 500, 2000),
      Reference(TRUE, 5000, 16000, 500, 500),
      Reference(TRUE, 5000, 16000, 0, 0),
      Reference(TRUE, 5000, 4000, 500, 3000),
      Reference(FALSE, 0, 0, 0, 0),
      [Reference(TRUE, 5000, 16000, 500, 3000) EXCEPT !.content_type = "text/plain"] }

\* validate_audio_file: all of the checks, or "Cannot read audio file"
validate_audio_file(f) ==
    [valid |-> /\ f.readable
               /\ f.duration >= 100 /\ f.duration <= MaxAudioLength
               /\ f.sr >= 8000
               /\ f.duration > 0
               /\ f.peak > 1,
     duration |-> f.duration]

\* extract_speaker_embedding: None when less than a second is left after
\* _remove_silence (which keeps everything when nothing is above threshold)
extract_speaker_embedding(f, audio_id) ==
    LET kept == IF f.voiced > 0 THEN f.voiced ELSE f.duration
    IN  IF kept < MinEmbeddingAudio THEN None ELSE [embedding_of |-> audio_id]

RefPath(audio_id) == <<"uploads", audio_id>>

Stores(embeddings, audios) == [speaker_embeddings |-> embeddings, uploaded_audios |-> audios]

\* lines 67-82 of upload_reference_audio: the embedding if there is one, then
\* the upload info
StoreReference(st, audio_id, f) ==
    LET embedding == extract_speaker_embedding(f, audio_id)
    IN  Stores(IF embedding # None THEN SetItem(st.speaker_embeddings, audio_id, embedding)
               ELSE st.speaker_embeddings,
               SetItem(st.uploaded_audios, audio_id,
                       [audio_id |-> audio_id, file_path |-> RefPath(audio_id),
                        embedding_extracted |-> embedding # None,
                        duration |-> f.duration]))

\* Faulty variant: the upload record removed and the embedding left (C29
\* tells it from RemoveReference)
RemoveReferenceKeepsEmbedding(st, audio_id) ==
    Stores(st.speaker_embeddings, DelItem(st.uploaded_audios, audio_id))

\* lines 297-301 of delete_reference_audio
RemoveReference(st, audio_id) ==
    Stores(DelItem(st.speaker_embeddings, audio_id), DelItem(st.uploaded_audios, audio_id))

Reply(op, audio_id, status, detail) ==
    [op |-> op, audio_id |-> audio_id, status |-> status, detail |-> detail]

InitClone ==
    /\ pc = <<>>
    /\ req = <<>>
    /\ files = NoFiles
    /\ audio_data = <<>>
    /\ sample_rate = 0
    /\ processed_audio = <<>>
    /\ log = <<>>
    /\ raised = {}
    /\ response = Reply("none", 0, 0, "")
    /\ arrays = <<>>
    /\ TtsIdle

\* upload_reference_audio up to "await file.read()": the content type test,
\* the new id, the file opened for writing
UploadBegin ==
    \E f \in ReferenceUploads :
        IF f.content_type # "audio/wav"
          THEN /\ response' = Reply("upload_reference_audio", 0, 400,
                                    "File must be an audio file")
               /\ UNCHANGED <<pc, req, files, log, raised, effects_state, tts_state>>
          ELSE /\ Len(req) < MaxUploads
               /\ req' = Append(req, f)
               /\ pc' = Append(pc, "reading")
               /\ files' = WriteFile(files, RefPath(Len(req) + 1), "")
               /\ UNCHANGED <<log, raised, response, effects_state, tts_state>>

\* upload_reference_audio from the write of the bytes to the response
UploadFinish(audio_id) ==
    /\ pc[audio_id] = "reading"
    /\ pc' = [pc EXCEPT ![audio_id] = "done"]
    /\ LET f == req[audio_id]
           validation == validate_audio_file(f)
           st == StoreReference(Stores(speaker_embeddings, uploaded_audios), audio_id, f)
       IN  IF ~validation.valid
             THEN /\ files' = Unlink(files, {RefPath(audio_id)})
                  /\ response' = Reply("upload_reference_audio", audio_id, 400,
                                       "Invalid audio file")
                  /\ UNCHANGED <<speaker_embeddings, uploaded_audios>>
           ELSE IF validation.duration < MinReferenceAudio
             THEN /\ files' = Unlink(files, {RefPath(audio_id)})
                  /\ response' = Reply("upload_reference_audio", audio_id, 400,
                                       "Reference audio must be at least 3 seconds long")
                  /\ UNCHANGED <<speaker_embeddings, uploaded_audios>>
           ELSE /\ files' = WriteFile(files, RefPath(audio_id), f)
                /\ speaker_embeddings' = st.speaker_embeddings
                /\ uploaded_audios' = st.uploaded_audios
                /\ response' = Reply("upload_reference_audio", audio_id, 200, "")
    /\ UNCHANGED <<req, log, raised, effects_state, model_manager, completed, error_occurred>>

\* delete_reference_audio: 404 for an unknown id, else the file, the
\* embedding and the upload record removed
DeleteReferenceAudio(audio_id) ==
    /\ IF audio_id \notin DOMAIN uploaded_audios
         THEN /\ response' = Reply("delete_reference_audio", audio_id, 404,
                                   "Reference audio not found")
              /\ UNCHANGED <<files, speaker_embeddings, uploaded_audios>>
         ELSE LET st == RemoveReference(Stores(speaker_embeddings, uploaded_audios), audio_id)
              IN  /\ files' = Unlink(files, {RefPath(audio_id)})
                  /\ speaker_embeddings' = st.speaker_embeddings
                  /\ uploaded_audios' = st.uploaded_audios
                  /\ response' = Reply("delete_reference_audio", audio_id, 200, "")
    /\ UNCHANGED <<pc, req, log, raised, effects_state, model_manager, completed,
                   error_occurred>>

\* clone_voice up to the two tests of the reference id; "accepted" stands
\* for a request that went on to the TTS model
CloneVoice(audio_id) ==
    /\ response' =
          IF audio_id \notin DOMAIN uploaded_audios
            THEN Reply("clone_voice", audio_id, 400, "Valid reference audio ID required")
          ELSE IF audio_id \notin DOMAIN speaker_embeddings
            THEN Reply("clone_voice", audio_id, 400,
                       "Speaker embedding not available for reference audio")
          ELSE Reply("clone_voice", audio_id, 0, "accepted")
    /\ UNCHANGED <<pc, req, files, log, raised, effects_state, tts_state>>

\* _cleanup_reference_file, two hours after a stored upload
CleanupReferenceFile(audio_id) ==
    /\ audio_id <= Len(pc)
    /\ pc[audio_id] = "done"
    /\ RefPath(audio_id) \in DOMAIN files
    /\ files' = Unlink(files, {RefPath(audio_id)})
    /\ UNCHANGED <<pc, req, log, raised, response, effects_state, tts_state>>

NextClone ==
    \/ UploadBegin
    \/ \E audio_id \in 1..MaxUploads :
          \/ audio_id <= Len(pc) /\ UploadFinish(audio_id)
          \/ DeleteReferenceAudio(audio_id)
          \/ CloneVoice(audio_id)
          \/ CleanupReferenceFile(audio_id)

SpecClone == InitClone /\ [][NextClone]_vars

\* the step sends the response of a request to op
Answers(op) == response' # response /\ response'.op = op

\* every id with an embedding has an upload record
EmbeddingsHaveUploads == DOMAIN speaker_embeddings \subseteq DOMAIN uploaded_audios

\* an upload refused by validation or for its duration changes neither store
RefusedUploadChangesNothing ==
    (Answers("upload_reference_audio") /\ response'.status = 400) =>
        UNCHANGED <<speaker_embeddings, uploaded_audios>>

\* /clone goes on only with an id that has both an upload record and an
\* embedding
CloneNeedsBoth ==
    (Answers("clone_voice") /\ response'.detail = "accepted") =>
        /\ response'.audio_id \in DOMAIN speaker_embeddings
        /\ response'.audio_id \in DOMAIN uploaded_audios

InNeitherStore ==
    /\ response'.audio_id \notin DOMAIN speaker_embeddings'
    /\ response'.audio_id \notin DOMAIN uploaded_audios'

====
